---- MODULE Spec2Model ----
(***************************************************************************)
(* Model of the malicious three-party shuffle wrapper of ipa-core           *)
(* (protocol/ipa_prf/shuffle/malicious.rs): MAC tagging of the rows         *)
(* (compute_and_add_tags), the shuffle, the reveal of the MAC keys          *)
(* (reveal_keys) and the hash exchange of verify_shuffle (h1_verify,        *)
(* h2_verify, h3_verify).                                                   *)
(*                                                                          *)
(* A Gf32Bit is the set of the exponents of its polynomial over GF(2)       *)
(* (a subset of 0..31); a boolean array BA_k is the set of its set bits     *)
(* (a subset of 0..k-1).  Helpers are 1, 2, 3 for H1, H2, H3.               *)
(***************************************************************************)
EXTENDS Integers, Sequences, FiniteSets, TLC

\* ------------------------------------------------------------------ bounds
NumRows == 2
RowLimbs == 2
NumSeeds == 2

\* ------------------------------------------------------- program constants
GfBits == 32
ByteBits == 8
HashesH3toH1Records == 2
HashRecords == 1

Helpers == {1, 2, 3}
H1 == 1
H2 == 2
H3 == 3

\* Role::peer(Direction::Right) and Role::peer(Direction::Left)
RightPeer(h) == (h % 3) + 1
LeftPeer(h) == ((h + 1) % 3) + 1

\* -------------------------------------------------------------- GF(2^32)
ZERO == {}
ONE == {0}

\* x^32 = x^7 + x^3 + x^2 + 1
GfReduction == {0, 2, 3, 7}

GfAdd(a, b) == (a \ b) \cup (b \ a)

\* x^e with one application of the reduction to a term of degree 32 or more
GfReduceTerm(e) == IF e < GfBits THEN {e} ELSE {e - GfBits + r : r \in GfReduction}

GfReduceOnce(p) ==
  {t \in 0..(2 * GfBits - 2) : Cardinality({e \in p : t \in GfReduceTerm(e)}) % 2 = 1}

\* x^e reduced, for every degree a product of two elements can have (reducing
\* twice brings every degree below 32, since the reduction has degree 7)
GfPowerOfX == [e \in 0..(2 * GfBits - 2) |-> GfReduceOnce(GfReduceOnce({e}))]

\* Gf32Bit multiplication: the carry-less product, reduced term by term
GfMul(a, b) ==
  LET terms == a \X b
  IN  {k \in UNION {GfPowerOfX[t[1] + t[2]] : t \in terms} :
         Cardinality({t \in terms : k \in GfPowerOfX[t[1] + t[2]]}) % 2 = 1}

RECURSIVE GfSum(_)
GfSum(s) == IF s = <<>> THEN ZERO ELSE GfAdd(Head(s), GfSum(Tail(s)))

\* ---------------------------------------------------------- boolean arrays
SBits == GfBits * RowLimbs
BBits == SBits + GfBits

NumBytes(bits) == (bits + ByteBits - 1) \div ByteBits
NumLimbs(bits) == (bits + GfBits - 1) \div GfBits

\* Serializable::serialize: little-endian bytes, a byte is the set of its set bits
Serialize(v, bits) ==
  [m \in 1..NumBytes(bits) |-> {b \in 0..(ByteBits - 1) : ByteBits * (m - 1) + b \in v}]

\* Serializable::deserialize of a buffer of the array's own length
Deserialize(bytes) ==
  UNION {{ByteBits * (m - 1) + b : b \in bytes[m]} : m \in DOMAIN bytes}

\* TryInto<Vec<Gf32Bit>>: the 32-bit limbs of an array, the last one zero-padded
ToGf32Bit(v, bits) ==
  [j \in 1..NumLimbs(bits) |->
     {i - GfBits * (j - 1) : i \in {x \in v : x \div GfBits = j - 1}}]

\* AdditiveShare::to_gf32bit: limb-wise shares
ShareToGf32Bit(sh, bits) ==
  LET l == ToGf32Bit(sh.left, bits)
      r == ToGf32Bit(sh.right, bits)
  IN  [j \in 1..NumLimbs(bits) |-> [left |-> l[j], right |-> r[j]]]

Share(l, r) == [left |-> l, right |-> r]
ShareAdd(a, b) == Share(GfAdd(a.left, b.left), GfAdd(a.right, b.right))
ShareZero == Share(ZERO, ZERO)

RECURSIVE ShareSum(_)
ShareSum(s) == IF s = <<>> THEN ShareZero ELSE ShareAdd(Head(s), ShareSum(Tail(s)))

\* ------------------------------------------------------------------ state
VARIABLES
  seed,       \* the PRSS seed of the query (pairwise shared randomness)
  rows,       \* rows[h]: helper h's shares of the input rows (AdditiveShare<S>)
  keyShares,  \* keyShares[h]: helper h's shares of the MAC keys (AdditiveShare<Gf32Bit>)
  tagged,     \* tagged[h]: output of compute_and_add_tags (AdditiveShare<B>)
  shares,     \* shares[h]: shuffled_shares passed to verify_shuffle
  messages,   \* messages[h]: IntermediateShuffleMessages (x1 | x2 | y1, y2)
  keys,       \* keys[h]: the vector returned by reveal_keys
  hashes,     \* hashes[h]: the hashes helper h computed locally
  recvd,      \* recvd[h]: the hashes helper h has received, by name
  pending,    \* pending[h]: the futures of the helper's join not yet completed
  net,        \* every message written to a send channel
  reads,      \* every receive issued that has completed
  pc,         \* pc[h]: position of helper h
  result,     \* result[h]: "none", "Ok" or the error returned
  tampered,   \* the rows corrupted between shuffle and verify (at most one)
  catIn,      \* the arguments of a call of concatenate_row_and_tag::<S, B>, or "idle"
  catOut,     \* what that call produced: a share, a panic, or "none"
  sortInput,  \* generate_permutation's input: input[b][i] is bit b-1 of row i
  sortPerm,   \* composed_less_significant_bits_permutation, reconstructed
  sortBitNum, \* bit_num of the loop
  sortLocals, \* revealed_and_random_permutations, the sorted bit, its permutation
  sortPc,     \* position of generate_permutation
  sortSteps,  \* the contexts generate_permutation has handed out, in order
  circSeed,   \* the randomness of the test world: thread_rng and the PRSS keys
  circRecord, \* record_id of the circuit
  circBit,    \* bit of the circuit's loop: the multiplications done so far
  circA,      \* a: circA[h] is helper h's share of the running product
  circB,      \* b: circB[h] is helper h's share of the other factor
  circTrace,  \* the values the test has shared and the operations it has asked for
  circNet,    \* every value a multiplication has sent
  circOut,    \* circOut[h]: what mul.execute returned to helper h
  circPc,     \* circPc[h]: position of helper h in the multiplication
  callIn,     \* the arguments of a call of one of the local functions, or "idle"
  callOut     \* the locals of that call while it runs, and then what it returned

shuffleVars == <<seed, rows, keyShares, tagged, shares, messages, keys, hashes,
                 recvd, pending, net, reads, pc, result, tampered>>
catVars == <<catIn, catOut>>
sortVars == <<sortInput, sortPerm, sortBitNum, sortLocals, sortPc, sortSteps>>
circVars == <<circSeed, circRecord, circBit, circA, circB, circTrace, circNet, circOut, circPc>>
callVars == <<callIn, callOut>>

\* what the handlers of one component leave alone
otherVars == <<catVars, sortVars, circVars, callVars>>
catOthers == <<shuffleVars, sortVars, circVars, callVars>>
sortOthers == <<shuffleVars, catVars, circVars, callVars>>

vars == <<shuffleVars, otherVars>>

\* no call of concatenate_row_and_tag is under way
CatIdle ==
  /\ catIn = [kind |-> "idle"]
  /\ catOut = [kind |-> "none"]

\* generate_permutation is not running
SortIdle ==
  /\ sortInput = <<>>
  /\ sortPerm = <<>>
  /\ sortBitNum = 0
  /\ sortLocals = <<>>
  /\ sortPc = "idle"
  /\ sortSteps = <<>>

\* no arithmetic circuit is running
CircIdle ==
  /\ circSeed = 1
  /\ circRecord = 0
  /\ circBit = 0
  /\ circA = [h \in Helpers |-> Share(0, 0)]
  /\ circB = [h \in Helpers |-> Share(0, 0)]
  /\ circTrace = <<>>
  /\ circNet = {}
  /\ circOut = [h \in Helpers |-> Share(0, 0)]
  /\ circPc = [h \in Helpers |-> "off"]

\* no local function is being called
CallIdle ==
  /\ callIn = [kind |-> "idle"]
  /\ callOut = [kind |-> "none"]

\* --------------------------------------------------------- sampled inputs
FieldSample == <<{}, {0}, {1, 31}, {5, 17}, {0, 8, 30}>>

\* pseudo-random draw number n under the seed sd
Rnd(sd, n) == FieldSample[((sd + n) % Len(FieldSample)) + 1]

FromLimbs(limbs) ==
  UNION {{GfBits * (j - 1) + i : i \in limbs[j]} : j \in DOMAIN limbs}

RndArray(sd, n, bits) == FromLimbs([j \in 1..NumLimbs(bits) |-> Rnd(sd, n + 2 * j)])

\* the row of the sampled inputs: all zero, or a bit in every limb and the top bit
RowPattern(k) ==
  IF k % 2 = 0 THEN {} ELSE {GfBits * j + j : j \in 0..(RowLimbs - 1)} \cup {SBits - 1}

\* the inputs a query may hold: the two patterns alternate, from either one
RowsSample == {[i \in 1..NumRows |-> RowPattern(i + r)] : r \in 0..1}

\* the MAC keys a query may draw: all ONE, or ZERO first and then a fixed element
KeySample == {[j \in 1..RowLimbs |-> ONE],
              [j \in 1..RowLimbs |-> IF j = 1 THEN ZERO ELSE {1, 31}],
              [j \in 1..RowLimbs |-> {j, 31}]}

\* replicated sharing of x: H1 (x1, x2), H2 (x2, x3), H3 (x3, x1)
Additive(x, x1, x2) == <<x1, x2, GfAdd(x, GfAdd(x1, x2))>>
ShareOf(parts, h) == Share(parts[h], parts[RightPeer(h)])

\* ------------------------------------------------------------------- PRSS
\* The value helper h draws at (step, rid) with its peer in direction dir: the
\* generator shared by h and its right peer is indexed by h.
StepNo(step) == CASE step = "ctx" -> 1 [] step = "z12" -> 2 [] step = "z23" -> 3
                  [] step = "z31" -> 4 [] step = "a_hat" -> 5 [] OTHER -> 6

PrssGen(owner, step, rid) == Rnd(seed, 3 * owner + 5 * StepNo(step) + rid)

Prss(h, dir, step, rid) ==
  IF dir = "left" THEN PrssGen(LeftPeer(h), step, rid) ELSE PrssGen(h, step, rid)

\* --------------------------------------------------------------- channels
Msg(step, from, to, rid, total, val) ==
  [step |-> step, from |-> from, to |-> to, rid |-> rid, total |-> total, val |-> val]

SameSlot(m, k) ==
  m.step = k.step /\ m.from = k.from /\ m.to = k.to /\ m.rid = k.rid

\* send(rid, v) on a send channel: dup counts the earlier writes of the same slot
SendOne(n, m) ==
  n \cup {[step |-> m.step, from |-> m.from, to |-> m.to, rid |-> m.rid,
           total |-> m.total, val |-> m.val,
           dup |-> Cardinality({x \in n : SameSlot(x, m)})]}

RECURSIVE SendAll(_, _)
SendAll(n, ms) == IF ms = <<>> THEN n ELSE SendAll(SendOne(n, Head(ms)), Tail(ms))

Arrived(step, from, to, rid) ==
  \E m \in net : m.step = step /\ m.from = from /\ m.to = to /\ m.rid = rid

\* receive(rid) on a receive channel: the value first written to the slot
Receive(step, from, to, rid) ==
  (CHOOSE m \in net :
     m.step = step /\ m.from = from /\ m.to = to /\ m.rid = rid /\ m.dup = 0).val

ReadOp(step, from, to, rid, total) ==
  [step |-> step, from |-> from, to |-> to, rid |-> rid, total |-> total]

\* ---------------------------------------------------------------- tagging
\* semi_honest_multiply: the value helper h computes and sends to its right peer
MultiplyD(h, step, rid, a, b) ==
  GfAdd(GfAdd(GfMul(a.left, b.left),
              GfAdd(GfMul(a.left, b.right), GfMul(a.right, b.left))),
        GfAdd(Prss(h, "left", step, rid), Prss(h, "right", step, rid)))

\* a record id that forgets the row stride
TagRecordIdSum(i, j, row_length) == i + j

\* RecordId::from(i * row_length + j), rows and limbs counted from 0
TagRecordId(i, j, row_length) == i * row_length + j

\* row_entries_iterator.zip(keys): the pairs of row i
ZipLen(h) ==
  IF NumLimbs(SBits) < Len(keyShares[h]) THEN NumLimbs(SBits) ELSE Len(keyShares[h])

RECURSIVE Flatten(_)
Flatten(ss) == IF ss = <<>> THEN <<>> ELSE Head(ss) \o Flatten(Tail(ss))

TagMessages(h) ==
  LET length == Len(rows[h])
      row_length == Len(keyShares[h])
  IN  Flatten([i \in 1..length |->
        LET entries == ShareToGf32Bit(rows[h][i], SBits)
        IN  [j \in 1..ZipLen(h) |->
              LET rid == TagRecordId(i - 1, j - 1, row_length)
              IN  Msg("ctx", h, RightPeer(h), rid, length * row_length,
                      MultiplyD(h, "ctx", rid, entries[j], keyShares[h][j]))]])

\* a chain that puts the tag in front of the row
ChainTagFirst(v, t, sbits) == Serialize(t, GfBits) \o Serialize(v, sbits)

\* row_left.into_iter().chain(tag_left): the bytes of the row, then those of the tag
ChainBytes(v, t, sbits) == Serialize(v, sbits) \o Serialize(t, GfBits)

\* a collect that takes whatever length the chain has
ConcatenateUnchecked(row, tag, sbits, bbits) ==
  [kind |-> "share",
   share |-> Share(Deserialize(ChainBytes(row.left, tag.left, sbits)),
                   Deserialize(ChainBytes(row.right, tag.right, sbits)))]

\* concatenate_row_and_tag::<S, B> for S of sbits bits and B of bbits bits:
\* collect() into the GenericArray of B's byte length panics on any other
\* length; B::deserialize(..).unwrap() then yields the array
ConcatenateAs(row, tag, sbits, bbits) ==
  IF NumBytes(sbits) + NumBytes(GfBits) # NumBytes(bbits)
  THEN [kind |-> "panic", message |-> "GenericArray::from_iter expected items",
        expected |-> NumBytes(bbits)]
  ELSE [kind |-> "share",
        share |-> Share(Deserialize(ChainBytes(row.left, tag.left, sbits)),
                        Deserialize(ChainBytes(row.right, tag.right, sbits)))]

\* concatenate_row_and_tag::<S, B> as compute_and_add_tags instantiates it
ConcatenateRowAndTag(row, tag) == ConcatenateAs(row, tag, SBits, BBits).share

\* the boolean arrays the calls are instantiated with (BA20, BA32, BA64, BA112, BA144)
RowWidths == {20, 32, 112}
RowAndTagWidths == {32, 64, 112, 144}

\* rng.gen::<S>(): no bit, the two ends, bits on both sides of a byte boundary
ArraySample(bits) == {{}, {0, bits - 1}, {7, 8, bits - 2}}
TagSample == {{}, {0, 31}, {7, 8, 23, 24}}

\* a call of concatenate_row_and_tag::<S, B>(&row, &tag)
CatCall ==
  /\ catIn.kind = "call"
  /\ catOut.kind = "none"
  /\ catOut' = ConcatenateAs(catIn.row, catIn.tag, catIn.sbits, catIn.bbits)
  /\ UNCHANGED <<catIn, catOthers>>

\* TotalRecords::specified(n): a count of zero is refused
TotalRecordsSpecified(n) == IF n = 0 THEN "Err: TotalRecords::specified(0)" ELSE "Ok"

\* what compute_and_add_tags does with length * row_length = 0: the debug_assert
\* panics in a build with debug assertions, otherwise the ? on
\* TotalRecords::specified returns its error
ZeroRecordsOutcomes(n) == {"panic: length * row_length != 0", TotalRecordsSpecified(n)}

\* a compute_and_add_tags that starts its multiplications whatever the lengths
TagSendUnchecked(h) ==
  /\ pc[h] = "init"
  /\ net' = SendAll(net, TagMessages(h))
  /\ pc' = [pc EXCEPT ![h] = "tagging"]
  /\ UNCHANGED otherVars
  /\ UNCHANGED <<seed, rows, keyShares, tagged, shares, messages, keys, hashes,
                 recvd, pending, reads, result, tampered>>

\* compute_and_add_tags up to its first await: the check of the lengths, then
\* every multiplication sends
TagSend(h) ==
  /\ pc[h] = "init"
  /\ LET length == Len(rows[h])
         row_length == Len(keyShares[h])
     IN  IF length * row_length = 0
         THEN /\ \E o \in ZeroRecordsOutcomes(length * row_length) :
                   result' = [result EXCEPT ![h] = o]
              /\ pc' = [pc EXCEPT ![h] = "failed"]
              /\ UNCHANGED net
         ELSE /\ net' = SendAll(net, TagMessages(h))
              /\ pc' = [pc EXCEPT ![h] = "tagging"]
              /\ UNCHANGED result
  /\ UNCHANGED otherVars
  /\ UNCHANGED <<seed, rows, keyShares, tagged, shares, messages, keys, hashes,
                 recvd, pending, reads, tampered>>

TagArrived(h) ==
  \A i \in 1..Len(rows[h]) : \A j \in 1..ZipLen(h) :
    Arrived("ctx", LeftPeer(h), h, TagRecordId(i - 1, j - 1, Len(keyShares[h])))

\* a tagging that keeps the first product of a row instead of the sum of all
TagOutputFirstProduct(h) ==
  LET row_length == Len(keyShares[h])
  IN  [i \in 1..Len(rows[h]) |->
        LET entries == ShareToGf32Bit(rows[h][i], SBits)
            rid == TagRecordId(i - 1, 0, row_length)
        IN  ConcatenateRowAndTag(rows[h][i],
              Share(Receive("ctx", LeftPeer(h), h, rid),
                    MultiplyD(h, "ctx", rid, entries[1], keyShares[h][1])))]

\* the tagged rows of helper h once every product has arrived
TagOutput(h) ==
  LET row_length == Len(keyShares[h])
  IN  [i \in 1..Len(rows[h]) |->
        LET entries == ShareToGf32Bit(rows[h][i], SBits)
            products ==
              [j \in 1..ZipLen(h) |->
                 LET rid == TagRecordId(i - 1, j - 1, row_length)
                 IN  Share(Receive("ctx", LeftPeer(h), h, rid),
                           MultiplyD(h, "ctx", rid, entries[j], keyShares[h][j]))]
        IN  ConcatenateRowAndTag(rows[h][i], ShareSum(products))]

TagReads(h) ==
  {ReadOp("ctx", LeftPeer(h), h, TagRecordId(i - 1, j - 1, Len(keyShares[h])),
          Len(rows[h]) * Len(keyShares[h])) :
     i \in 1..Len(rows[h]), j \in 1..ZipLen(h)}

\* compute_and_add_tags from the arrival of the products to its return
TagRecv(h) ==
  /\ pc[h] = "tagging"
  /\ TagArrived(h)
  /\ tagged' = [tagged EXCEPT ![h] = TagOutput(h)]
  /\ reads' = reads \cup TagReads(h)
  /\ pc' = [pc EXCEPT ![h] = "tagged"]
  /\ UNCHANGED otherVars
  /\ UNCHANGED <<seed, rows, keyShares, shares, messages, keys, hashes, recvd,
                 pending, net, result, tampered>>

\* ---------------------------------------------------------------- shuffle
Min(a, b) == IF a < b THEN a ELSE b

PrssArray(owner, step, i) ==
  FromLimbs([j \in 1..NumLimbs(BBits) |->
               PrssGen(owner, step, i * NumLimbs(BBits) + j)])

Identity(n) == [i \in 1..n |-> i]
Reverse(n) == [i \in 1..n |-> n + 1 - i]

\* the permutation drawn from the generator shared by owner and its right peer
PermOf(owner, n) == IF (seed + owner) % 2 = 0 THEN Identity(n) ELSE Reverse(n)

\* a permutation step that writes one row to every position
PermuteFirst(p, v) == [i \in DOMAIN v |-> v[p[1]]]

Permute(p, v) == [i \in DOMAIN v |-> v[p[i]]]

AddSingleShares(u, v) == [i \in DOMAIN u |-> GfAdd(u[i], v[i])]

\* The base shuffle, run by the three helpers on the tagged rows: the outputs
\* (a_hat, b_hat), (b_hat, c_hat), (c_hat, a_hat) and the captured messages.
ShuffleRun ==
  LET n == Len(tagged[H1])
      a == [i \in 1..n |-> tagged[H1][i].left]
      b == [i \in 1..n |-> tagged[H1][i].right]
      c == [i \in 1..n |-> tagged[H2][i].right]
      z12 == [i \in 1..n |-> PrssArray(H1, "z12", i)]
      z23 == [i \in 1..n |-> PrssArray(H2, "z23", i)]
      z31 == [i \in 1..n |-> PrssArray(H3, "z31", i)]
      a_hat == [i \in 1..n |-> PrssArray(H3, "a_hat", i)]
      b_hat == [i \in 1..n |-> PrssArray(H1, "b_hat", i)]
      x1 == Permute(PermOf(H1, n), AddSingleShares(AddSingleShares(a, b), z12))
      y1 == Permute(PermOf(H1, n), AddSingleShares(c, z12))
      x2 == Permute(PermOf(H3, n), AddSingleShares(x1, z31))
      y2 == Permute(PermOf(H3, n), AddSingleShares(y1, z31))
      x3 == Permute(PermOf(H2, n), AddSingleShares(x2, z23))
      y3 == Permute(PermOf(H2, n), AddSingleShares(y2, z23))
      c_hat == AddSingleShares(AddSingleShares(x3, b_hat), AddSingleShares(y3, a_hat))
      part == <<a_hat, b_hat, c_hat>>
  IN  [out |-> [h \in Helpers |->
                  [i \in 1..n |-> Share(part[h][i], part[RightPeer(h)][i])]],
       msg |-> <<[x1 |-> x1], [x2 |-> x2], [y1 |-> y1, y2 |-> y2]>>]

Shuffle ==
  /\ \A h \in Helpers : pc[h] = "tagged"
  /\ shares' = ShuffleRun.out
  /\ messages' = ShuffleRun.msg
  /\ pc' = [h \in Helpers |-> "shuffled"]
  /\ UNCHANGED otherVars
  /\ UNCHANGED <<seed, rows, keyShares, tagged, keys, hashes, recvd, pending,
                 net, reads, result, tampered>>

\* ------------------------------------------------ corruption of a held row
HeldFields(h) == {"left", "right"} \cup DOMAIN messages[h]

\* a byte of the first limb and a byte of the tag limb of a tagged row
TamperBytes == {1, (GfBits \div ByteBits) * RowLimbs + 2}

FlipBit(v, bit) == GfAdd(v, {bit})

\* A byte of row i of field f held by helper h changes between shuffle and verify.
Tamper(h, f, i, byte) ==
  /\ \A g \in Helpers : pc[g] = "shuffled"
  /\ tampered = {}
  /\ f \in HeldFields(h)
  /\ LET bit == ByteBits * byte + (byte % ByteBits)
     IN  IF f \in {"left", "right"}
         THEN /\ shares' = [shares EXCEPT ![h][i][f] = FlipBit(@, bit)]
              /\ UNCHANGED messages
         ELSE /\ messages' = [messages EXCEPT ![h][f][i] = FlipBit(@, bit)]
              /\ UNCHANGED shares
  /\ tampered' = {[helper |-> h, field |-> f, row |-> i,
                   limb |-> (byte \div (GfBits \div ByteBits)) + 1]}
  /\ UNCHANGED otherVars
  /\ UNCHANGED <<seed, rows, keyShares, tagged, keys, hashes, recvd, pending,
                 net, reads, pc, result>>

\* Component f of helper h's share of MAC key j changes before the reveal: the
\* helper sends a value in malicious_reveal that is not its peer's copy.
TamperKey(h, f, j) ==
  /\ \A g \in Helpers : pc[g] = "shuffled"
  /\ tampered = {}
  /\ keyShares' = [keyShares EXCEPT ![h][j][f] = FlipBit(@, 0)]
  /\ tampered' = {[helper |-> h, field |-> f, row |-> j, limb |-> 0]}
  /\ UNCHANGED otherVars
  /\ UNCHANGED <<seed, rows, tagged, shares, messages, keys, hashes, recvd, pending,
                 net, reads, pc, result>>

\* a check of the revealed values that accepts whatever arrives
RevealUnchecked(h) == TRUE

\* ------------------------------------------------------------ reveal_keys
\* malicious_reveal with except = None: left goes right, right goes left
RevealMessages(h) ==
  LET total == Len(keyShares[h])
  IN  Flatten([i \in 1..total |->
        <<Msg("RevealMACKey", h, RightPeer(h), i - 1, total, keyShares[h][i].left),
          Msg("RevealMACKey", h, LeftPeer(h), i - 1, total, keyShares[h][i].right)>>])

\* verify_shuffle up to the first await of reveal_keys
RevealSend(h) ==
  /\ pc[h] = "shuffled"
  /\ net' = SendAll(net, RevealMessages(h))
  /\ pc' = [pc EXCEPT ![h] = "revealing"]
  /\ UNCHANGED otherVars
  /\ UNCHANGED <<seed, rows, keyShares, tagged, shares, messages, keys, hashes,
                 recvd, pending, reads, result, tampered>>

RevealArrived(h) ==
  \A i \in 1..Len(keyShares[h]) :
    /\ Arrived("RevealMACKey", LeftPeer(h), h, i - 1)
    /\ Arrived("RevealMACKey", RightPeer(h), h, i - 1)

RevealConsistent(h) ==
  \A i \in 1..Len(keyShares[h]) :
    Receive("RevealMACKey", LeftPeer(h), h, i - 1)
      = Receive("RevealMACKey", RightPeer(h), h, i - 1)

\* a reveal that does not chain the ONE for the tag limb
RevealKeysNoOne(h) ==
  [i \in 1..Len(keyShares[h]) |->
     GfAdd(GfAdd(keyShares[h][i].left, keyShares[h][i].right),
           Receive("RevealMACKey", LeftPeer(h), h, i - 1))]

\* reveal_keys: the revealed keys in index order, chained with one ONE
RevealKeys(h) ==
  [i \in 1..Len(keyShares[h]) |->
     GfAdd(GfAdd(keyShares[h][i].left, keyShares[h][i].right),
           Receive("RevealMACKey", LeftPeer(h), h, i - 1))] \o <<ONE>>

RevealReads(h) ==
  {ReadOp("RevealMACKey", p, h, i - 1, Len(keyShares[h])) :
     p \in {LeftPeer(h), RightPeer(h)}, i \in 1..Len(keyShares[h])}

\* ------------------------------------------------------- compute_row_hash
\* compute_hash: a collision-free digest of the sequence of inner products
ComputeHash(items) == [sha256_of |-> items]

\* the fold of compute_row_hash over row.zip(keys)
InnerProduct(entries, ks) ==
  GfSum([j \in 1..Min(Len(entries), Len(ks)) |-> GfMul(entries[j], ks[j])])

ComputeRowHash(ks, row_iterator) ==
  ComputeHash([i \in DOMAIN row_iterator |->
                 InnerProduct(ToGf32Bit(row_iterator[i], BBits), ks)])

\* the hashes each helper computes before it sets up its channels
H1Hashes(ks) ==
  [x1 |-> ComputeRowHash(ks, messages[H1].x1),
   a_xor_b |-> ComputeRowHash(ks,
                 [i \in DOMAIN shares[H1] |->
                    GfAdd(shares[H1][i].left, shares[H1][i].right)])]

\* an H2 that hashes the left component of its shares as c
H2HashesLeft(ks) ==
  [x2 |-> ComputeRowHash(ks, messages[H2].x2),
   c |-> ComputeRowHash(ks, [i \in DOMAIN shares[H2] |-> shares[H2][i].left])]

H2Hashes(ks) ==
  [x2 |-> ComputeRowHash(ks, messages[H2].x2),
   c |-> ComputeRowHash(ks, [i \in DOMAIN shares[H2] |-> shares[H2][i].right])]

H3Hashes(ks) ==
  [y1 |-> ComputeRowHash(ks, messages[H3].y1),
   y2 |-> ComputeRowHash(ks, messages[H3].y2),
   c |-> ComputeRowHash(ks, [i \in DOMAIN shares[H3] |-> shares[H3][i].left])]

\* the futures of the helper's try_join
JoinOf(h) ==
  CASE h = H1 -> {"hash_y1", "hash_h3", "hash_h2"}
    [] h = H2 -> {"send_hash_c", "hash_h3"}
    [] h = H3 -> {"send_hash_y1", "send_hash_c", "send_hash_y2"}

\* verify_shuffle from the arrival of the revealed shares to the try_join of
\* h1_verify, h2_verify or h3_verify
VerifyStart(h) ==
  /\ pc[h] = "revealing"
  /\ RevealArrived(h)
  /\ reads' = reads \cup RevealReads(h)
  /\ IF RevealConsistent(h)
     THEN /\ keys' = [keys EXCEPT ![h] = RevealKeys(h)]
          /\ hashes' = [hashes EXCEPT ![h] =
                          CASE h = H1 -> H1Hashes(keys'[h])
                            [] h = H2 -> H2Hashes(keys'[h])
                            [] h = H3 -> H3Hashes(keys'[h])]
          /\ pending' = [pending EXCEPT ![h] = JoinOf(h)]
          /\ pc' = [pc EXCEPT ![h] = "joining"]
          /\ UNCHANGED result
     ELSE /\ pc' = [pc EXCEPT ![h] = "failed"]
          /\ result' = [result EXCEPT ![h] = "Inconsistent"]
          /\ UNCHANGED <<keys, hashes, pending>>
  /\ UNCHANGED otherVars
  /\ UNCHANGED <<seed, rows, keyShares, tagged, shares, messages, recvd, net, tampered>>

\* ---------------------------------------------------------- hash exchange
Slot(step, peer, rid, total) == [step |-> step, peer |-> peer, rid |-> rid, total |-> total]

\* an H1 that reads h_c at record 0 and h_y1 at record 1
H1SlotSwapped(f) ==
  CASE f = "hash_y1" -> Slot("HashesH3toH1", LeftPeer(H1), 1, HashesH3toH1Records)
    [] f = "hash_h3" -> Slot("HashesH3toH1", LeftPeer(H1), 0, HashesH3toH1Records)
    [] f = "hash_h2" -> Slot("HashH2toH1", RightPeer(H1), 0, HashRecords)

\* h1_verify: channel_h3 (left peer, 2 records), channel_h2 (right peer, 1 record)
H1Slot(f) ==
  CASE f = "hash_y1" -> Slot("HashesH3toH1", LeftPeer(H1), 0, HashesH3toH1Records)
    [] f = "hash_h3" -> Slot("HashesH3toH1", LeftPeer(H1), 1, HashesH3toH1Records)
    [] f = "hash_h2" -> Slot("HashH2toH1", RightPeer(H1), 0, HashRecords)

\* an H2 that opens its send channel to the right peer
H2SlotWrongPeer(f) ==
  CASE f = "send_hash_c" -> Slot("HashH2toH1", RightPeer(H2), 0, HashRecords)
    [] f = "hash_h3" -> Slot("HashH3toH2", RightPeer(H2), 0, HashRecords)

\* h2_verify: channel_h1 (send, left peer), channel_h3 (receive, right peer)
H2Slot(f) ==
  CASE f = "send_hash_c" -> Slot("HashH2toH1", LeftPeer(H2), 0, HashRecords)
    [] f = "hash_h3" -> Slot("HashH3toH2", RightPeer(H2), 0, HashRecords)

\* an H3 that sets one record on the step on which it sends two
H3SlotOneRecord(f) ==
  CASE f = "send_hash_y1" -> Slot("HashesH3toH1", RightPeer(H3), 0, HashRecords)
    [] f = "send_hash_c" -> Slot("HashesH3toH1", RightPeer(H3), 1, HashRecords)
    [] f = "send_hash_y2" -> Slot("HashH3toH2", LeftPeer(H3), 0, HashRecords)

\* h3_verify: channel_h1 (right peer, 2 records), channel_h2 (left peer, 1 record)
H3Slot(f) ==
  CASE f = "send_hash_y1" -> Slot("HashesH3toH1", RightPeer(H3), 0, HashesH3toH1Records)
    [] f = "send_hash_c" -> Slot("HashesH3toH1", RightPeer(H3), 1, HashesH3toH1Records)
    [] f = "send_hash_y2" -> Slot("HashH3toH2", LeftPeer(H3), 0, HashRecords)

\* the hash h3_verify passes to each of its sends
H3Payload(f, hs) ==
  CASE f = "send_hash_y1" -> hs.y1
    [] f = "send_hash_c" -> hs.c
    [] f = "send_hash_y2" -> hs.y2

\* an h1_verify that omits the check of the hash of H2
H1VerdictNoH2Check(hs, got) ==
  IF hs.x1 # got.hash_y1 THEN "ShuffleValidationFailed: Y1 is inconsistent"
  ELSE IF hs.a_xor_b # got.hash_h3 THEN "ShuffleValidationFailed: C from H3 is inconsistent"
  ELSE "Ok"

\* an h1_verify that omits the check of the hash of y1
H1VerdictNoY1Check(hs, got) ==
  IF hs.a_xor_b # got.hash_h3 THEN "ShuffleValidationFailed: C from H3 is inconsistent"
  ELSE IF hs.a_xor_b # got.hash_h2 THEN "ShuffleValidationFailed: C from H2 is inconsistent"
  ELSE "Ok"

\* an h1_verify that checks the hash of H2 before the hash of c of H3
H1VerdictH2First(hs, got) ==
  IF hs.x1 # got.hash_y1 THEN "ShuffleValidationFailed: Y1 is inconsistent"
  ELSE IF hs.a_xor_b # got.hash_h2 THEN "ShuffleValidationFailed: C from H2 is inconsistent"
  ELSE IF hs.a_xor_b # got.hash_h3 THEN "ShuffleValidationFailed: C from H3 is inconsistent"
  ELSE "Ok"

\* h1_verify after the join: check y1, check c from h3, check h2
H1Verdict(hs, got) ==
  IF hs.x1 # got.hash_y1 THEN "ShuffleValidationFailed: Y1 is inconsistent"
  ELSE IF hs.a_xor_b # got.hash_h3 THEN "ShuffleValidationFailed: C from H3 is inconsistent"
  ELSE IF hs.a_xor_b # got.hash_h2 THEN "ShuffleValidationFailed: C from H2 is inconsistent"
  ELSE "Ok"

\* h2_verify after the join: check x2
H2Verdict(hs, got) ==
  IF hs.x2 # got.hash_h3 THEN "ShuffleValidationFailed: X2 is inconsistent" ELSE "Ok"

Returns(h, verdict) ==
  /\ pc' = [pc EXCEPT ![h] = IF verdict = "Ok" THEN "done" ELSE "failed"]
  /\ result' = [result EXCEPT ![h] = verdict]

\* one receive of h1_verify's try_join3 completes; the last one lets it return
H1Receive(f) ==
  /\ pc[H1] = "joining"
  /\ f \in pending[H1]
  /\ LET s == H1Slot(f)
         got == (f :> Receive(s.step, s.peer, H1, s.rid)) @@ recvd[H1]
     IN  /\ Arrived(s.step, s.peer, H1, s.rid)
         /\ recvd' = [recvd EXCEPT ![H1] = got]
         /\ reads' = reads \cup {ReadOp(s.step, s.peer, H1, s.rid, s.total)}
         /\ pending' = [pending EXCEPT ![H1] = @ \ {f}]
         /\ IF pending[H1] = {f}
            THEN Returns(H1, H1Verdict(hashes[H1], got))
            ELSE UNCHANGED <<pc, result>>
  /\ UNCHANGED otherVars
  /\ UNCHANGED <<seed, rows, keyShares, tagged, shares, messages, keys, hashes,
                 net, tampered>>

\* the send of h2_verify's try_join completes
H2Send ==
  /\ pc[H2] = "joining"
  /\ "send_hash_c" \in pending[H2]
  /\ LET s == H2Slot("send_hash_c")
     IN  net' = SendOne(net, Msg(s.step, H2, s.peer, s.rid, s.total, hashes[H2].c))
  /\ pending' = [pending EXCEPT ![H2] = @ \ {"send_hash_c"}]
  /\ IF pending[H2] = {"send_hash_c"}
     THEN Returns(H2, H2Verdict(hashes[H2], recvd[H2]))
     ELSE UNCHANGED <<pc, result>>
  /\ UNCHANGED otherVars
  /\ UNCHANGED <<seed, rows, keyShares, tagged, shares, messages, keys, hashes,
                 recvd, reads, tampered>>

\* the receive of h2_verify's try_join completes
H2Receive ==
  /\ pc[H2] = "joining"
  /\ "hash_h3" \in pending[H2]
  /\ LET s == H2Slot("hash_h3")
         got == ("hash_h3" :> Receive(s.step, s.peer, H2, s.rid)) @@ recvd[H2]
     IN  /\ Arrived(s.step, s.peer, H2, s.rid)
         /\ recvd' = [recvd EXCEPT ![H2] = got]
         /\ reads' = reads \cup {ReadOp(s.step, s.peer, H2, s.rid, s.total)}
         /\ pending' = [pending EXCEPT ![H2] = @ \ {"hash_h3"}]
         /\ IF pending[H2] = {"hash_h3"}
            THEN Returns(H2, H2Verdict(hashes[H2], got))
            ELSE UNCHANGED <<pc, result>>
  /\ UNCHANGED otherVars
  /\ UNCHANGED <<seed, rows, keyShares, tagged, shares, messages, keys, hashes,
                 net, tampered>>

\* an h3_verify that compares two of its own hashes before it returns
H3SendCompares(f) ==
  /\ pc[H3] = "joining"
  /\ f \in pending[H3]
  /\ LET s == H3Slot(f)
     IN  net' = SendOne(net, Msg(s.step, H3, s.peer, s.rid, s.total,
                                 H3Payload(f, hashes[H3])))
  /\ pending' = [pending EXCEPT ![H3] = @ \ {f}]
  /\ IF pending[H3] = {f}
     THEN Returns(H3, IF hashes[H3].c # hashes[H3].y1
                      THEN "ShuffleValidationFailed: C is inconsistent" ELSE "Ok")
     ELSE UNCHANGED <<pc, result>>
  /\ UNCHANGED otherVars
  /\ UNCHANGED <<seed, rows, keyShares, tagged, shares, messages, keys, hashes,
                 recvd, reads, tampered>>

\* one send of h3_verify's try_join3 completes; after the last one it returns Ok
H3Send(f) ==
  /\ pc[H3] = "joining"
  /\ f \in pending[H3]
  /\ LET s == H3Slot(f)
     IN  net' = SendOne(net, Msg(s.step, H3, s.peer, s.rid, s.total,
                                 H3Payload(f, hashes[H3])))
  /\ pending' = [pending EXCEPT ![H3] = @ \ {f}]
  /\ IF pending[H3] = {f}
     THEN Returns(H3, "Ok")
     ELSE UNCHANGED <<pc, result>>
  /\ UNCHANGED otherVars
  /\ UNCHANGED <<seed, rows, keyShares, tagged, shares, messages, keys, hashes,
                 recvd, reads, tampered>>

\* ---------------------------------------------------------- specification
\* the three helpers hold shares of n rows and of k MAC keys
ShuffleInit(n, k) ==
  /\ seed \in 1..NumSeeds
  /\ \E xs \in RowsSample, ks \in KeySample :
       /\ rows = [h \in Helpers |->
                    [i \in 1..n |->
                       ShareOf(Additive(xs[i], RndArray(seed, 3 * i, SBits),
                                        RndArray(seed, 3 * i + 1, SBits)), h)]]
       /\ keyShares = [h \in Helpers |->
                         [j \in 1..k |->
                            ShareOf(Additive(ks[j], Rnd(seed, 2 * j), Rnd(seed, 2 * j + 3)), h)]]
  /\ tagged = [h \in Helpers |-> <<>>]
  /\ shares = [h \in Helpers |-> <<>>]
  /\ messages = [h \in Helpers |-> <<>>]
  /\ keys = [h \in Helpers |-> <<>>]
  /\ hashes = [h \in Helpers |-> <<>>]
  /\ recvd = [h \in Helpers |-> <<>>]
  /\ pending = [h \in Helpers |-> {}]
  /\ net = {}
  /\ reads = {}
  /\ pc = [h \in Helpers |-> "init"]
  /\ result = [h \in Helpers |-> "none"]
  /\ tampered = {}

Init == CatIdle /\ SortIdle /\ CircIdle /\ CallIdle /\ ShuffleInit(NumRows, RowLimbs)

\* a query that may hold no rows, or no keys
EdgeInit ==
  CatIdle /\ SortIdle /\ CircIdle /\ CallIdle /\ \E n \in {0, NumRows}, k \in {0, RowLimbs} : ShuffleInit(n, k)

\* the shuffle wrapper is not running
ShuffleIdle ==
  /\ seed = 1
  /\ rows = [h \in Helpers |-> <<>>]
  /\ keyShares = [h \in Helpers |-> <<>>]
  /\ tagged = [h \in Helpers |-> <<>>]
  /\ shares = [h \in Helpers |-> <<>>]
  /\ messages = [h \in Helpers |-> <<>>]
  /\ keys = [h \in Helpers |-> <<>>]
  /\ hashes = [h \in Helpers |-> <<>>]
  /\ recvd = [h \in Helpers |-> <<>>]
  /\ pending = [h \in Helpers |-> {}]
  /\ net = {}
  /\ reads = {}
  /\ pc = [h \in Helpers |-> "idle"]
  /\ result = [h \in Helpers |-> "none"]
  /\ tampered = {}

\* check_concatenate::<S, B> and check_tags::<S, B>: a random row and tag share
CatInit ==
  /\ ShuffleIdle
  /\ SortIdle
  /\ CircIdle
  /\ CallIdle
  /\ \E sb \in RowWidths, bb \in RowAndTagWidths :
       \E rl \in ArraySample(sb), rr \in ArraySample(sb), tl \in TagSample, tr \in TagSample :
         catIn = [kind |-> "call", sbits |-> sb, bbits |-> bb,
                  row |-> Share(rl, rr), tag |-> Share(tl, tr)]
  /\ catOut = [kind |-> "none"]

CatNext == CatCall

CatSpec == CatInit /\ [][CatNext]_vars

HonestNext ==
  \/ \E h \in Helpers : TagSend(h)
  \/ \E h \in Helpers : TagRecv(h)
  \/ Shuffle
  \/ \E h \in Helpers : RevealSend(h)
  \/ \E h \in Helpers : VerifyStart(h)
  \/ \E f \in JoinOf(H1) : H1Receive(f)
  \/ H2Send
  \/ H2Receive
  \/ \E f \in JoinOf(H3) : H3Send(f)

TamperNext ==
  \E h \in Helpers, f \in {"left", "right", "x1", "x2", "y1", "y2"},
     i \in 1..NumRows, byte \in TamperBytes : Tamper(h, f, i, byte)

Next == HonestNext \/ TamperNext

Spec == Init /\ [][Next]_vars

\* the run in which no row is corrupted; every helper's tasks are scheduled
\* and every message sent is delivered
HonestSpec == Init /\ [][HonestNext]_vars /\ WF_vars(HonestNext)

\* the honest run on a query that may hold no rows, or no keys
EdgeSpec == EdgeInit /\ [][HonestNext]_vars

\* the run in which one helper may reveal a corrupted share of a MAC key
RevealNext ==
  \/ HonestNext
  \/ \E h \in Helpers, f \in {"left", "right"}, j \in 1..RowLimbs : TamperKey(h, f, j)

RevealSpec == Init /\ [][RevealNext]_vars

\* ================================================== generate_permutation
\* The sort is modelled on the reconstructed values: a permutation is the
\* sequence of the destinations (counted from 0) of the rows.
MaxSortRows == 3
MaxSortBits == 3

\* the prime of the field F the sort is instantiated with in this model: the
\* destinations 0..MaxSortRows fit in it, the keys of three bits do not
SortFieldPrime == 5

\* bit_permutation: the destinations of a stable sort by one bit
BitPermutation(bits) ==
  [i \in DOMAIN bits |->
     IF bits[i] = 0
     THEN Cardinality({j \in 1..(i - 1) : bits[j] = 0})
     ELSE Cardinality({j \in DOMAIN bits : bits[j] = 0})
          + Cardinality({j \in 1..(i - 1) : bits[j] = 1})]

\* get_two_of_three_random_permutations(input_len, prss): the shuffle of
\* 0..input_len-1 the three helpers' pairwise permutations amount to
RandomPermutations(input_len) ==
  {[i \in 1..input_len |-> i - 1],
   [i \in 1..input_len |-> input_len - i],
   [i \in 1..input_len |-> i % input_len]}

\* shuffle_shares(values, randoms): position i receives values[randoms[i]];
\* a permutation longer than the values indexes out of bounds
ShuffleShares(values, randoms) ==
  [i \in DOMAIN values |-> IF i <= Len(randoms) THEN values[randoms[i] + 1] ELSE values[i]]

\* the shuffle undone: position randoms[i] receives values[i]
UnshuffleShares(values, randoms) ==
  [k \in DOMAIN values |->
     IF k <= Len(randoms) THEN values[CHOOSE i \in DOMAIN randoms : randoms[i] + 1 = k]
     ELSE values[k]]

\* apply_inv(revealed, values): position revealed[i] receives values[i]
ApplyInv(revealed, values) ==
  [k \in DOMAIN values |-> values[CHOOSE i \in DOMAIN revealed : revealed[i] + 1 = k]]

\* apply(revealed, values): position i receives values[revealed[i]]
Apply(revealed, values) == [i \in DOMAIN values |-> values[revealed[i] + 1]]

NoLocals == [revealed |-> <<>>, randoms |-> <<>>, sorted |-> <<>>, tau |-> <<>>]

\* a step of the protocol: a variant of a step enum and its arguments
Step(name, args) == [step |-> name, args |-> args]

\* IpaProtocolStep::Sort(bit_num)
Sort(bit_num) == Step("Sort", <<bit_num>>)

\* a context that forgets where it was narrowed from
NarrowFromRoot(ctx, step) == <<step>>

\* ctx.narrow(&step): the context one step below ctx
Narrow(ctx, step) == Append(ctx, step)

\* the context generate_permutation is called with
SortCtx == <<>>

\* a loop that leaves out the bit after the one it has done
SortAdvanceSkip(bit_num) ==
  /\ sortBitNum' = bit_num + 1
  /\ sortPc' = IF bit_num + 1 < Len(sortInput) THEN "shuffle_reveal" ELSE "done"

\* what the loop does after bit bit_num: the next bit, or Ok(composed ...)
SortAdvance(bit_num) ==
  /\ sortBitNum' = bit_num
  /\ sortPc' = IF bit_num < Len(sortInput) THEN "shuffle_reveal" ELSE "done"

\* bit_0 = input[0]; bit_0_permutation = bit_permutation(bit_0)
SortBit0 ==
  /\ sortPc = "start"
  /\ sortPerm' = BitPermutation(sortInput[1])
  /\ LET ctx_0 == Narrow(SortCtx, Sort(0))
     IN  sortSteps' = Append(sortSteps, Narrow(ctx_0, Step("BitPermutationStep", <<>>)))
  /\ SortAdvance(1)
  /\ UNCHANGED <<sortInput, sortLocals, sortOthers>>

\* shuffle_and_reveal_permutation(ctx, input_len, composed...) with
\* input_len = input.len()
SortShuffleReveal ==
  /\ sortPc = "shuffle_reveal"
  /\ LET input_len == Len(sortInput)
         ctx == Narrow(Narrow(SortCtx, Sort(sortBitNum)), Step("ShuffleRevealPermutation", <<>>))
         generate == Narrow(ctx, Step("GeneratePermutation", <<>>))
         shuffle == Narrow(ctx, Step("ShufflePermutation", <<>>))
         reveal == Narrow(ctx, Step("RevealPermutation", <<>>))
     IN  \E randoms \in RandomPermutations(input_len) :
           IF input_len > Len(sortPerm)
           THEN /\ sortPc' = "panicked"
                /\ sortSteps' = sortSteps \o <<generate, shuffle>>
                /\ UNCHANGED sortLocals
           ELSE /\ sortLocals' = [NoLocals EXCEPT !.randoms = randoms,
                                     !.revealed = ShuffleShares(sortPerm, randoms)]
                /\ sortSteps' = sortSteps \o <<generate, shuffle, reveal>>
                /\ sortPc' = "apply_inv"
  /\ UNCHANGED <<sortInput, sortPerm, sortBitNum, sortOthers>>

\* secureapplyinv(ctx, input[bit_num], randoms_for_shuffle, revealed)
SortApplyInv ==
  /\ sortPc = "apply_inv"
  /\ sortLocals' = [sortLocals EXCEPT !.sorted =
                      ApplyInv(sortLocals.revealed,
                               ShuffleShares(sortInput[sortBitNum + 1], sortLocals.randoms))]
  /\ sortPc' = "bit_permutation"
  /\ sortSteps' = Append(sortSteps, Narrow(Narrow(SortCtx, Sort(sortBitNum)),
                                           Step("ApplyInv", <<>>)))
  /\ UNCHANGED <<sortInput, sortPerm, sortBitNum, sortOthers>>

\* bit_permutation(ctx, bit_i_sorted_by_less_significant_bits)
SortBitPermutation ==
  /\ sortPc = "bit_permutation"
  /\ sortLocals' = [sortLocals EXCEPT !.tau = BitPermutation(sortLocals.sorted)]
  /\ sortPc' = "compose"
  /\ sortSteps' = Append(sortSteps, Narrow(Narrow(SortCtx, Sort(sortBitNum)),
                                           Step("BitPermutationStep", <<>>)))
  /\ UNCHANGED <<sortInput, sortPerm, sortBitNum, sortOthers>>

\* a loop that carries bit_i_permutation on instead of the composition
ComposedPermutationUncomposed == sortLocals.tau

\* compose(ctx, randoms_for_shuffle, revealed, bit_i_permutation)
ComposedPermutation ==
  UnshuffleShares(Apply(sortLocals.revealed, sortLocals.tau), sortLocals.randoms)

\* composed_less_significant_bits_permutation = composed_i_permutation
SortCompose ==
  /\ sortPc = "compose"
  /\ sortPerm' = ComposedPermutation
  /\ sortSteps' = Append(sortSteps, Narrow(Narrow(SortCtx, Sort(sortBitNum)),
                                           Step("ComposeStep", <<>>)))
  /\ SortAdvance(sortBitNum + 1)
  /\ UNCHANGED <<sortInput, sortLocals, sortOthers>>

\* tests::semi_honest: rows of keys of num_bits bits, handed over bit by bit
SortInit ==
  /\ ShuffleIdle
  /\ CatIdle
  /\ CircIdle
  /\ CallIdle
  /\ \E n \in 1..MaxSortRows, num_bits \in 1..MaxSortBits :
       sortInput \in [1..num_bits -> [1..n -> {0, 1}]]
  /\ sortPerm = <<>>
  /\ sortBitNum = 0
  /\ sortLocals = NoLocals
  /\ sortPc = "start"
  /\ sortSteps = <<>>

SortNext ==
  \/ SortBit0
  \/ SortShuffleReveal
  \/ SortApplyInv
  \/ SortBitPermutation
  \/ SortCompose

SortSpec == SortInit /\ [][SortNext]_vars

\* ===================================================== arithmetic circuit
\* The test circuit of the semi-honest multiplication over the prime field
\* F_31: a value is shared, and multiplied depth times by a freshly shared one.
Prime == 31

\* arithmetic(width, depth)
Width == 2
Depth == 2

\* the linear operations a run may apply between multiplications
MaxLinear == 1

\* the field elements the test may share
FpSample == {1, 5, 7}

FpAdd(x, y) == (x + y) % Prime
FpSub(x, y) == (x + Prime - y) % Prime
FpMul(x, y) == (x * y) % Prime

\* share(x, rng): H1 (x1, x2), H2 (x2, x3), H3 (x3, x1) with x1 + x2 + x3 = x,
\* x1 and x2 being the n-th and the next value thread_rng draws in this world
FpShare(x, n) ==
  LET x1 == (11 * circSeed + 7 * n + 3) % Prime
      x2 == (11 * circSeed + 7 * n + 10) % Prime
      parts == <<x1, x2, FpSub(FpSub(x, x1), x2)>>
  IN  [h \in Helpers |-> ShareOf(parts, h)]

\* a known value laid out over the wrong pair of helpers
ShareKnownValueH2(c) ==
  [h \in Helpers |-> Share(IF h = H1 THEN c ELSE 0, IF h = H2 THEN c ELSE 0)]

\* share_known_value(c): c in left for H1, in right for H3, zero otherwise
ShareKnownValue(c) ==
  [h \in Helpers |-> Share(IF h = H1 THEN c ELSE 0, IF h = H3 THEN c ELSE 0)]

\* the local operations of Linear on one helper's share: s + t, s - t for a
\* share t, and s * t for a constant t
Linear(op, s, t) ==
  CASE op = "add" -> Share(FpAdd(s.left, t.left), FpAdd(s.right, t.right))
    [] op = "sub" -> Share(FpSub(s.left, t.left), FpSub(s.right, t.right))
    [] op = "scale" -> Share(FpMul(s.left, t), FpMul(s.right, t))

\* the generator shared by helper owner and its right peer, at Mul1(bit) and rid
FpPrssGen(owner, bit, rid) ==
  (13 * circSeed * (owner + bit + 1) + 7 * owner * owner + 3 * rid) % Prime

\* a draw that uses the helper's own generator in both directions
FpPrssOwn(h, dir, bit, rid) == FpPrssGen(h, bit, rid)

\* the draw helper h shares with its peer in direction dir
FpPrss(h, dir, bit, rid) ==
  IF dir = "left" THEN FpPrssGen(LeftPeer(h), bit, rid) ELSE FpPrssGen(h, bit, rid)

\* a product that forgets one cross term
FpMultiplyDNoCross(h, bit, rid, a, b) ==
  FpAdd(FpAdd(FpMul(a.left, b.left), FpMul(a.left, b.right)),
        FpSub(FpPrss(h, "left", bit, rid), FpPrss(h, "right", bit, rid)))

\* d_i = a_i b_i + a_i b_{i+1} + a_{i+1} b_i + s_i - s_{i+1}
FpMultiplyD(h, bit, rid, a, b) ==
  FpAdd(FpAdd(FpMul(a.left, b.left),
              FpAdd(FpMul(a.left, b.right), FpMul(a.right, b.left))),
        FpSub(FpPrss(h, "left", bit, rid), FpPrss(h, "right", bit, rid)))

\* an output that puts the helper's own value on the left
MultiplyOutputOwnLeft(received, own) == Share(own, received)

\* the share a multiplication returns: the value received from the left peer
\* and the helper's own value, which its right peer receives
MultiplyOutput(received, own) == Share(received, own)

\* let b = share(v, rng) and the three calls of ctx.multiply(record_id, Mul1(bit))
CircShare ==
  /\ \A h \in Helpers : circPc[h] = "idle"
  /\ circBit < Depth
  /\ \E v \in FpSample :
       /\ circB' = FpShare(v, 2 * circBit + 2)
       /\ circTrace' = Append(circTrace, [op |-> "multiply", v |-> v])
  /\ circOut' = [h \in Helpers |-> Share(0, 0)]
  /\ circPc' = [h \in Helpers |-> "ready"]
  /\ UNCHANGED <<circSeed, circRecord, circBit, circA, circNet, shuffleVars, catVars, sortVars, callVars>>

\* mul.execute(a[i], b[i]) up to its send to the right peer
CircMulSend(h) ==
  /\ circPc[h] = "ready"
  /\ circNet' = circNet \cup
       {[from |-> h, to |-> RightPeer(h), bit |-> circBit, rid |-> circRecord,
         val |-> FpMultiplyD(h, circBit, circRecord, circA[h], circB[h])]}
  /\ circPc' = [circPc EXCEPT ![h] = "sent"]
  /\ UNCHANGED <<circSeed, circRecord, circBit, circA, circB, circTrace, circOut, shuffleVars, catVars, sortVars, callVars>>

\* mul.execute(a[i], b[i]) from its receive from the left peer
CircMulRecv(h) ==
  /\ circPc[h] = "sent"
  /\ \E m \in circNet :
       /\ m.from = LeftPeer(h) /\ m.to = h /\ m.bit = circBit /\ m.rid = circRecord
       /\ circOut' = [circOut EXCEPT ![h] =
            MultiplyOutput(m.val, FpMultiplyD(h, circBit, circRecord, circA[h], circB[h]))]
  /\ circPc' = [circPc EXCEPT ![h] = "done"]
  /\ UNCHANGED <<circSeed, circRecord, circBit, circA, circB, circTrace, circNet, shuffleVars, catVars, sortVars, callVars>>

\* join_all(coll): the three outputs become a, and the loop goes on
CircJoin ==
  /\ \A h \in Helpers : circPc[h] = "done"
  /\ circA' = circOut
  /\ circBit' = circBit + 1
  /\ circPc' = [h \in Helpers |-> "idle"]
  /\ UNCHANGED <<circSeed, circRecord, circB, circTrace, circNet, circOut, shuffleVars, catVars, sortVars, callVars>>

\* a local operation on a between two multiplications: a + t or a - t for a
\* shared or a known value t, or a * c for a constant c
CircLinear ==
  /\ \A h \in Helpers : circPc[h] = "idle"
  /\ Cardinality({i \in DOMAIN circTrace : circTrace[i].op \notin {"share", "multiply"}})
       < MaxLinear
  /\ \E op \in {"add", "sub", "scale"}, known \in BOOLEAN, c \in FpSample :
       LET t == IF known THEN ShareKnownValue(c) ELSE FpShare(c, 2 * circBit + 3)
       IN  /\ op = "scale" => known
           /\ circA' = [h \in Helpers |->
                          Linear(op, circA[h], IF op = "scale" THEN c ELSE t[h])]
           /\ circB' = IF op = "scale" THEN circB ELSE t
           /\ circTrace' = Append(circTrace, [op |-> op, v |-> c])
  /\ UNCHANGED <<circSeed, circRecord, circBit, circNet, circOut, circPc, shuffleVars, catVars, sortVars, callVars>>

\* make_world, and let mut a = share(v, rng) for one record of the circuit
CircInit ==
  /\ ShuffleIdle
  /\ CatIdle
  /\ SortIdle
  /\ CallIdle
  /\ circSeed \in 1..NumSeeds
  /\ circRecord \in 0..(Width - 1)
  /\ circBit = 0
  /\ \E v \in FpSample :
       /\ circA = FpShare(v, 0)
       /\ circTrace = <<[op |-> "share", v |-> v]>>
  /\ circB = [h \in Helpers |-> Share(0, 0)]
  /\ circNet = {}
  /\ circOut = [h \in Helpers |-> Share(0, 0)]
  /\ circPc = [h \in Helpers |-> "idle"]

CircNext ==
  \/ CircShare
  \/ \E h \in Helpers : CircMulSend(h)
  \/ \E h \in Helpers : CircMulRecv(h)
  \/ CircJoin
  \/ CircLinear

CircSpec == CircInit /\ [][CircNext]_vars

\* ========================================================= local functions
\* Calls of the functions that run on one helper without communication.

\* ------------------------------------------------ multiplicative_inverse.rs
\* the largest m and n mod_inverse is called with
MaxGcdInput == 16

\* count_twos_multiple(x) = x.trailing_zeros(), for x > 0
RECURSIVE CountTwosMultiple(_)
CountTwosMultiple(x) == IF x % 2 = 1 THEN 0 ELSE 1 + CountTwosMultiple(x \div 2)

\* a halving that never adds y and subtracts x
RECURSIVE HalveNoFix(_, _, _, _, _)
HalveNoFix(u, a, b, x, y) ==
  IF u % 2 = 1 THEN [u |-> u, a |-> a, b |-> b]
  ELSE HalveNoFix(u \div 2, a \div 2, b \div 2, x, y)

\* while u.is_even() { u >>= 1; ... }: also the loop on v, with c and d
RECURSIVE Halve(_, _, _, _, _)
Halve(u, a, b, x, y) ==
  IF u % 2 = 1 THEN [u |-> u, a |-> a, b |-> b]
  ELSE IF a % 2 = 0 /\ b % 2 = 0
       THEN Halve(u \div 2, a \div 2, b \div 2, x, y)
       ELSE Halve(u \div 2, (a + y) \div 2, (b - x) \div 2, x, y)

\* mod_inverse calls extended_binary_gcd(m, n): the code before its loop
GcdStart ==
  /\ callIn.kind = "mod_inverse"
  /\ callOut.kind = "none"
  /\ LET shift == Min(CountTwosMultiple(callIn.m), CountTwosMultiple(callIn.n))
         x == callIn.m \div (2 ^ shift)
         y == callIn.n \div (2 ^ shift)
     IN  callOut' = [kind |-> "ebgcd", x |-> x, y |-> y, shift |-> shift,
                     u |-> x, v |-> y, a |-> 1, b |-> 0, c |-> 0, d |-> 1]
  /\ UNCHANGED <<callIn, shuffleVars, catVars, sortVars, circVars>>

\* a loop that tests v, not u, for zero before it goes round again
GcdLoopTestsV ==
  /\ callOut.kind = "ebgcd"
  /\ IF callOut.u = 0 \/ callOut.v = 0
     THEN callOut' = [kind |-> "diverged"]
     ELSE LET x == callOut.x
              y == callOut.y
              hu == Halve(callOut.u, callOut.a, callOut.b, x, y)
              hv == Halve(callOut.v, callOut.c, callOut.d, x, y)
              ge == hu.u >= hv.u
              u == IF ge THEN hu.u - hv.u ELSE hu.u
              a == IF ge THEN hu.a - hv.a ELSE hu.a
              b == IF ge THEN hu.b - hv.b ELSE hu.b
              v == IF ge THEN hv.u ELSE hv.u - hu.u
              c == IF ge THEN hv.a ELSE hv.a - hu.a
              d == IF ge THEN hv.b ELSE hv.b - hu.b
          IN  callOut' =
                IF v = 0
                THEN [kind |-> "gcd", a |-> c, b |-> d, g |-> v * (2 ^ callOut.shift)]
                ELSE [callOut EXCEPT !.u = u, !.v = v, !.a = a, !.b = b, !.c = c, !.d = d]
  /\ UNCHANGED <<callIn, shuffleVars, catVars, sortVars, circVars>>

\* one iteration of the loop of extended_binary_gcd; a while loop on zero
\* never ends
GcdLoop ==
  /\ callOut.kind = "ebgcd"
  /\ IF callOut.u = 0 \/ callOut.v = 0
     THEN callOut' = [kind |-> "diverged"]
     ELSE LET x == callOut.x
              y == callOut.y
              hu == Halve(callOut.u, callOut.a, callOut.b, x, y)
              hv == Halve(callOut.v, callOut.c, callOut.d, x, y)
              ge == hu.u >= hv.u
              u == IF ge THEN hu.u - hv.u ELSE hu.u
              a == IF ge THEN hu.a - hv.a ELSE hu.a
              b == IF ge THEN hu.b - hv.b ELSE hu.b
              v == IF ge THEN hv.u ELSE hv.u - hu.u
              c == IF ge THEN hv.a ELSE hv.a - hu.a
              d == IF ge THEN hv.b ELSE hv.b - hu.b
          IN  callOut' =
                IF u = 0
                THEN [kind |-> "gcd", a |-> c, b |-> d, g |-> v * (2 ^ callOut.shift)]
                ELSE [callOut EXCEPT !.u = u, !.v = v, !.a = a, !.b = b, !.c = c, !.d = d]
  /\ UNCHANGED <<callIn, shuffleVars, catVars, sortVars, circVars>>

\* mod_inverse once extended_binary_gcd has returned (a, _, g)
ModInverse ==
  /\ callOut.kind = "gcd"
  /\ callOut' =
       IF callOut.g # 1 THEN [kind |-> "None"]
       ELSE IF callOut.a < 0 THEN [kind |-> "adding", a |-> callOut.a]
       ELSE [kind |-> "Some", t |-> callOut.a % callIn.n]
  /\ UNCHANGED <<callIn, shuffleVars, catVars, sortVars, circVars>>

\* while a.is_negative() { a += &to_add; }, and the two assertions after it
ModInverseAdd ==
  /\ callOut.kind = "adding"
  /\ callOut' =
       IF callOut.a < 0 THEN [kind |-> "adding", a |-> callOut.a + callIn.n]
       ELSE IF callOut.a > 0 /\ callOut.a < callIn.n THEN [kind |-> "Some", t |-> callOut.a]
       ELSE [kind |-> "panic"]
  /\ UNCHANGED <<callIn, shuffleVars, catVars, sortVars, circVars>>

\* ------------------------------------------------------------ bitwise_sum.rs
\* the longest inputs of BitwiseSum that are enumerated
MaxSumBits == 3

\* into_bits(2147483645) over the 32-bit prime field, least significant bit first
SumExample == [i \in 1..32 |-> IF i \in {2, 32} THEN 0 ELSE 1]

\* Carries: the carry out of bit i of a + b, bits counted from 1
RECURSIVE CarryBit(_, _, _)
CarryBit(a, b, i) == IF i = 0 THEN 0 ELSE (a[i] + b[i] + CarryBit(a, b, i - 1)) \div 2

\* a sum that takes the carry out of bit i for the carry into it
BitwiseSumSameCarry(a, b, c) ==
  [i \in 1..(Len(a) + 1) |->
     IF i <= Len(a)
     THEN Linear("sub", Linear("add", a[i], b[i]), Linear("scale", c[i], 2))
     ELSE c[Len(a)]]

\* BitwiseSum::execute on one helper, after Carries has returned c
BitwiseSum(a, b, c) ==
  [i \in 1..(Len(a) + 1) |->
     IF i = 1
     THEN Linear("sub", Linear("add", a[1], b[1]), Linear("scale", c[1], 2))
     ELSE IF i <= Len(a)
     THEN Linear("sub", Linear("add", Linear("add", a[i], b[i]), c[i - 1]),
                 Linear("scale", c[i], 2))
     ELSE c[Len(a)]]

\* tests::bitwise_sum: the bits of a and b are shared, and each helper runs
\* BitwiseSum::execute on its shares
BitwiseSumCall ==
  /\ callIn.kind = "bitwise_sum"
  /\ callOut.kind = "none"
  /\ LET l == Len(callIn.a)
         a == [i \in 1..l |-> FpShare(callIn.a[i], i)]
         b == [i \in 1..l |-> FpShare(callIn.b[i], 40 + i)]
         c == [i \in 1..l |-> FpShare(CarryBit(callIn.a, callIn.b, i), 80 + i)]
     IN  callOut' = [kind |-> "bits",
                     d |-> [h \in Helpers |-> BitwiseSum([i \in 1..l |-> a[i][h]],
                                                         [i \in 1..l |-> b[i][h]],
                                                         [i \in 1..l |-> c[i][h]])]]
  /\ UNCHANGED <<callIn, shuffleVars, catVars, sortVars, circVars>>

\* ------------------------------------------------- query/runner/oprf_ipa.rs
\* the most rows a query holds
MaxQueryRows == 5

\* the values of per_user_credit_cap a query is configured with
CapSample == {0, 1, 8, 12, 16, 32, 64, 100, 128, 256}

\* a runner that accepts every cap from 8 on and takes three bits for all
OprfIpaExecuteAnyCap ==
  /\ callIn.kind = "query"
  /\ callOut.kind = "none"
  /\ callOut' =
       IF ~callIn.plaintext_match_keys
       THEN [kind |-> "panic",
             message |-> "Encrypted match key handling is not handled for OPRF flow as yet"]
       ELSE IF callIn.per_user_credit_cap >= 8
       THEN [kind |-> "oprf_ipa", tv_bits |-> 3,
             rows |-> SubSeq(callIn.rows, 1, Min(callIn.query_size, Len(callIn.rows)))]
       ELSE [kind |-> "panic", message |-> "Invalid value specified for per-user cap"]
  /\ UNCHANGED <<callIn, shuffleVars, catVars, sortVars, circVars>>

\* OprfIpaQuery::execute: the rows are read and truncated to query_size, and
\* the cap selects the instance of oprf_ipa that is called
OprfIpaExecute ==
  /\ callIn.kind = "query"
  /\ callOut.kind = "none"
  /\ callOut' =
       IF ~callIn.plaintext_match_keys
       THEN [kind |-> "panic",
             message |-> "Encrypted match key handling is not handled for OPRF flow as yet"]
       ELSE LET input == SubSeq(callIn.rows, 1, Min(callIn.query_size, Len(callIn.rows)))
                cap == callIn.per_user_credit_cap
            IN  IF cap \in {8, 16, 32, 64, 128}
                THEN [kind |-> "oprf_ipa", rows |-> input,
                      tv_bits |-> CASE cap = 8 -> 3 [] cap = 16 -> 4 [] cap = 32 -> 5
                                    [] cap = 64 -> 6 [] cap = 128 -> 7]
                ELSE [kind |-> "panic", message |-> "Invalid value specified for per-user cap"]
  /\ UNCHANGED <<callIn, shuffleVars, catVars, sortVars, circVars>>

\* ------------------------------------------------ protocol/ipa_prf/mod.rs
\* the records of tests::semi_honest (scenario S6), all at timestamp 0
Records ==
  << [user_id |-> 12345, is_trigger_report |-> FALSE, breakdown_key |-> 1, trigger_value |-> 0],
     [user_id |-> 12345, is_trigger_report |-> FALSE, breakdown_key |-> 2, trigger_value |-> 0],
     [user_id |-> 68362, is_trigger_report |-> FALSE, breakdown_key |-> 1, trigger_value |-> 0],
     [user_id |-> 12345, is_trigger_report |-> TRUE, breakdown_key |-> 0, trigger_value |-> 5],
     [user_id |-> 68362, is_trigger_report |-> TRUE, breakdown_key |-> 0, trigger_value |-> 2] >>

\* the largest active_work a context is given
MaxActiveWork == 3

\* A join holds the inputs of its futures, how many of them were admitted,
\* which of them completed, and the results yielded so far. The future of a
\* match key yields its pseudonym (convert_to_fp25519 and eval_dy_prf, an
\* injective function of the match key under the key of the query); the
\* futures of the other sites yield a value built from their input.

\* the next future is admitted, in input order, while fewer than capacity
\* admitted futures have not yet yielded their result
JoinAdmit ==
  /\ callOut.kind = "join"
  /\ callOut.started < Len(callOut.inputs)
  /\ callOut.started - Len(callOut.out) < callOut.capacity
  /\ callOut' = [callOut EXCEPT !.started = @ + 1]
  /\ UNCHANGED <<callIn, shuffleVars, catVars, sortVars, circVars>>

\* an admitted future completes; the futures complete in any order
JoinComplete(i) ==
  /\ callOut.kind = "join"
  /\ i \in 1..callOut.started
  /\ i \notin callOut.finished
  /\ callOut' = [callOut EXCEPT !.finished = @ \cup {i}]
  /\ UNCHANGED <<callIn, shuffleVars, catVars, sortVars, circVars>>

\* a join that yields the result of the future that completed, whichever
JoinYieldCompleted ==
  /\ callOut.kind = "join"
  /\ Len(callOut.out) + 1 \in callOut.finished
  /\ \E i \in callOut.finished :
       callOut' = [callOut EXCEPT
                     !.out = Append(@, IF callOut.site = "pseudonyms"
                                       THEN ((callOut.inputs[i] + 4321) * 7919) % 1000003
                                       ELSE [site |-> callOut.site,
                                             of |-> callOut.inputs[i]])]
  /\ UNCHANGED <<callIn, shuffleVars, catVars, sortVars, circVars>>

\* the result at the head of the join is yielded once its future completed
JoinYield ==
  /\ callOut.kind = "join"
  /\ Len(callOut.out) + 1 \in callOut.finished
  /\ LET x == callOut.inputs[Len(callOut.out) + 1]
     IN  callOut' = [callOut EXCEPT
                       !.out = Append(@, IF callOut.site = "pseudonyms"
                                         THEN ((x + 4321) * 7919) % 1000003
                                         ELSE [site |-> callOut.site, of |-> x])]
  /\ UNCHANGED <<callIn, shuffleVars, catVars, sortVars, circVars>>

\* reveal_keys joins one reveal per key with parallel_join, and
\* compute_and_add_tags one future per row with seq_join(ctx.active_work())
JoinCall ==
  /\ callIn.kind \in {"reveal_keys", "compute_and_add_tags"}
  /\ callOut.kind = "none"
  /\ callOut' = [kind |-> "join", site |-> callIn.kind, inputs |-> callIn.inputs,
                  capacity |-> IF callIn.kind = "reveal_keys" THEN Len(callIn.inputs)
                               ELSE callIn.active_work,
                  rows |-> callIn.inputs, started |-> 0, finished |-> {}, out |-> << >>]
  /\ UNCHANGED <<callIn, shuffleVars, catVars, sortVars, circVars>>

\* both calls collect the results of their join into a vector
JoinCollect ==
  /\ callOut.kind = "join"
  /\ callOut.site # "pseudonyms"
  /\ Len(callOut.out) = Len(callOut.inputs)
  /\ callOut' = [kind |-> "joined", site |-> callOut.site, out |-> callOut.out]
  /\ UNCHANGED <<callIn, shuffleVars, catVars, sortVars, circVars>>

\* oprf_ipa up to its parallel_join: the assertion on the cap, then one
\* future per input row; it is called by the runner or directly
OprfIpaCheck ==
  /\ \/ callIn.kind = "oprf_ipa" /\ callOut.kind = "none"
     \/ callIn.kind = "query" /\ callOut.kind = "oprf_ipa"
  /\ LET user_cap == callIn.per_user_credit_cap
         input_rows == IF callIn.kind = "query" THEN callOut.rows ELSE callIn.rows
         \* x & y of two i32, y being x - 1 (so that y = -1 only when x = 0)
         RECURSIVE BitAnd(_, _)
         BitAnd(x, y) ==
           IF x = 0 THEN 0 ELSE (x % 2) * (y % 2) + 2 * BitAnd(x \div 2, y \div 2)
     IN  callOut' =
           IF BitAnd(user_cap, user_cap - 1) = 0
           THEN [kind |-> "join", site |-> "pseudonyms",
                 inputs |-> [i \in 1..Len(input_rows) |-> input_rows[i].user_id],
                 capacity |-> Len(input_rows), rows |-> input_rows,
                 started |-> 0, finished |-> {}, out |-> << >>]
           ELSE [kind |-> "panic",
                 message |-> "This code only works for a user cap which is a power of 2"]
  /\ UNCHANGED <<callIn, shuffleVars, catVars, sortVars, circVars>>

\* attribution, capping and aggregation as section 4.J states them: a walk
\* of the rows that keeps, per pseudonym, the breakdown key of the latest
\* source row and the credit given so far; a trigger row credits its value,
\* cut at what the cap leaves, to that breakdown key
RECURSIVE Attribution(_, _, _, _, _, _)
Attribution(inputs, i, cap, last, total, hist) ==
  IF i > Len(inputs) THEN hist
  ELSE LET r == inputs[i]
           u == r.prf_of_match_key
       IN  IF ~r.is_trigger_bit
           THEN Attribution(inputs, i + 1, cap, [last EXCEPT ![u] = r.breakdown_key],
                            total, hist)
           ELSE IF last[u] = -1
           THEN Attribution(inputs, i + 1, cap, last, total, hist)
           ELSE LET credit == Min(r.trigger_value, cap - total[u])
                IN  Attribution(inputs, i + 1, cap, last,
                                [total EXCEPT ![u] = @ + credit],
                                [hist EXCEPT ![last[u] + 1] = FpAdd(@, credit)])

\* oprf_ipa after its join: the rows are zipped with the pseudonyms and
\* handed to attribution_and_capping_and_aggregation with ilog2 of the cap
OprfIpaAttribute ==
  /\ callOut.kind = "join"
  /\ callOut.site = "pseudonyms"
  /\ Len(callOut.out) = Len(callOut.inputs)
  /\ LET user_cap == callIn.per_user_credit_cap
         pseudonymed_inputs ==
           [i \in 1..Len(callOut.rows) |->
              [prf_of_match_key |-> callOut.out[i],
               is_trigger_bit |-> callOut.rows[i].is_trigger_report,
               breakdown_key |-> callOut.rows[i].breakdown_key,
               trigger_value |-> callOut.rows[i].trigger_value]]
         users == {callOut.out[i] : i \in 1..Len(callOut.out)}
     IN  callOut' =
           IF user_cap <= 0
           THEN [kind |-> "panic", message |-> "argument of integer logarithm must be positive"]
           ELSE [kind |-> "histogram",
                 rows |-> pseudonymed_inputs,
                 cap_bits |-> CHOOSE b \in 0..29 : 2 ^ b <= user_cap /\ user_cap < 2 ^ (b + 1),
                 value |-> Attribution(pseudonymed_inputs, 1, user_cap,
                                       [u \in users |-> -1], [u \in users |-> 0],
                                       [b \in 1..callIn.max_breakdown_key |-> 0])]
  /\ UNCHANGED <<callIn, shuffleVars, catVars, sortVars, circVars>>

\* ------------------------------------------------ query/runner/aggregate.rs
\* a runner that hands every parsed row to the protocol
AggregateExecuteAllRows ==
  /\ callIn.kind = "aggregate"
  /\ callOut.kind = "none"
  /\ callOut' = [kind |-> "aggregate_protocol", rows |-> callIn.rows]
  /\ UNCHANGED <<callIn, shuffleVars, catVars, sortVars, circVars>>

\* AggregateQuery::execute: the breakdown keys are read, truncated to
\* query_size and handed to aggregate_protocol
AggregateExecute ==
  /\ callIn.kind = "aggregate"
  /\ callOut.kind = "none"
  /\ callOut' = [kind |-> "aggregate_protocol",
                 rows |-> SubSeq(callIn.rows, 1, Min(callIn.query_size, Len(callIn.rows)))]
  /\ UNCHANGED <<callIn, shuffleVars, catVars, sortVars, circVars>>

\* ------------------------------------- shuffle_and_reveal_permutation
\* The three helpers run shuffle_and_reveal_permutation on shares of a
\* permutation; the draws of the three PRSS generators are inputs of the call.

\* helpers that draw both permutations from their own generator
ShuffleRevealGenerateOwn ==
  /\ callIn.kind = "shuffle_and_reveal_permutation"
  /\ callOut.kind = "none"
  /\ LET n == callIn.input_len
         Drawn(owner) ==
           LET k == callIn.prss[owner]
           IN  [i \in 1..n |-> IF (k \div n) % 2 = 1 THEN (n - i + k) % n
                               ELSE (i - 1 + k) % n]
     IN  callOut' = [kind |-> "shuffle_shares",
                     randoms |-> [h \in Helpers |-> <<Drawn(h), Drawn(h)>>],
                     shares |-> [h \in Helpers |->
                                   [i \in 1..Len(callIn.permutation) |->
                                      FpShare(callIn.permutation[i], i)[h]]]]
  /\ UNCHANGED <<callIn, shuffleVars, catVars, sortVars, circVars>>

\* get_two_of_three_random_permutations(input_len, prss_rng): the first
\* permutation is drawn from the generator shared with the left peer, the
\* second from the one shared with the right peer; generate_shares of the test
ShuffleRevealGenerate ==
  /\ callIn.kind = "shuffle_and_reveal_permutation"
  /\ callOut.kind = "none"
  /\ LET n == callIn.input_len
         Drawn(owner) ==
           LET k == callIn.prss[owner]
           IN  [i \in 1..n |-> IF (k \div n) % 2 = 1 THEN (n - i + k) % n
                               ELSE (i - 1 + k) % n]
     IN  callOut' = [kind |-> "shuffle_shares",
                     randoms |-> [h \in Helpers |-> <<Drawn(LeftPeer(h)), Drawn(h)>>],
                     shares |-> [h \in Helpers |->
                                   [i \in 1..Len(callIn.permutation) |->
                                      FpShare(callIn.permutation[i], i)[h]]]]
  /\ UNCHANGED <<callIn, shuffleVars, catVars, sortVars, circVars>>

\* shuffle_shares: three rounds; in the round of helper o, o applies its
\* second permutation and its right peer its first one, and the third helper
\* is handed the shares that go with theirs
ShuffleRevealShuffle ==
  /\ callOut.kind = "shuffle_shares"
  /\ LET Round(sh, o) ==
           LET p == RightPeer(o)
               so == ShuffleShares(sh[o], callOut.randoms[o][2])
               sp == ShuffleShares(sh[p], callOut.randoms[p][1])
           IN  [h \in Helpers |->
                  IF h = o THEN so
                  ELSE IF h = p THEN sp
                  ELSE [i \in DOMAIN so |-> Share(sp[i].right, so[i].left)]]
     IN  callOut' = [callOut EXCEPT
                       !.kind = "reveal_permutation",
                       !.shares = Round(Round(Round(@, H1), H2), H3)]
  /\ UNCHANGED <<callIn, shuffleVars, catVars, sortVars, circVars>>

\* a reveal that adds the helper's own left share a second time
ShuffleRevealRevealOwn ==
  /\ callOut.kind = "reveal_permutation"
  /\ callOut' =
       [kind |-> "RevealedAndRandomPermutations",
        out |-> [h \in Helpers |->
                   [revealed |->
                      [i \in DOMAIN callOut.shares[h] |->
                         FpAdd(FpAdd(callOut.shares[h][i].left, callOut.shares[h][i].right),
                               callOut.shares[h][i].left)],
                    randoms_for_shuffle |-> callOut.randoms[h]]]]
  /\ UNCHANGED <<callIn, shuffleVars, catVars, sortVars, circVars>>

\* reveal_permutation: every helper adds the share its left peer sends to
\* its own two; the result goes out with the two random permutations
ShuffleRevealReveal ==
  /\ callOut.kind = "reveal_permutation"
  /\ callOut' =
       [kind |-> "RevealedAndRandomPermutations",
        out |-> [h \in Helpers |->
                   [revealed |->
                      [i \in DOMAIN callOut.shares[h] |->
                         FpAdd(FpAdd(callOut.shares[h][i].left, callOut.shares[h][i].right),
                               callOut.shares[LeftPeer(h)][i].left)],
                    randoms_for_shuffle |-> callOut.randoms[h]]]]
  /\ UNCHANGED <<callIn, shuffleVars, catVars, sortVars, circVars>>

\* ------------------------------------------------------------ step names
\* The steps of src/src/protocol/mod.rs and of the test world, their Display
\* and their TryFrom<String>. A String is the sequence of its characters; an
\* Option or a Result is the set of what it holds, empty for None and Err.
Upper == <<"A", "B", "C", "D", "E", "F", "G", "H", "I", "J", "K", "L", "M", "N", "O", "P", "Q", "R", "S", "T", "U", "V", "W", "X", "Y", "Z">>
Lower == <<"a", "b", "c", "d", "e", "f", "g", "h", "i", "j", "k", "l", "m", "n", "o", "p", "q", "r", "s", "t", "u", "v", "w", "x", "y", "z">>
Digits == <<"0", "1", "2", "3", "4", "5", "6", "7", "8", "9">>

\* str::to_lowercase
ToLowercase(value) ==
  [i \in DOMAIN value |->
     IF \E k \in DOMAIN Upper : Upper[k] = value[i]
     THEN Lower[CHOOSE k \in DOMAIN Upper : Upper[k] = value[i]]
     ELSE value[i]]

\* str::strip_prefix
StripPrefix(value, prefix) ==
  IF Len(value) >= Len(prefix) /\ SubSeq(value, 1, Len(prefix)) = prefix
  THEN {SubSeq(value, Len(prefix) + 1, Len(value))}
  ELSE {}

\* str::split_once('/')
SplitOnce(value) ==
  IF \E i \in DOMAIN value : value[i] = "/"
  THEN LET i == CHOOSE k \in DOMAIN value :
                  value[k] = "/" /\ \A j \in 1..(k - 1) : value[j] # "/"
       IN  {<<SubSeq(value, 1, i - 1), SubSeq(value, i + 1, Len(value))>>}
  ELSE {}

\* u8's Display: the decimal digits, without leading zeros
RECURSIVE U8ToString(_)
U8ToString(u) ==
  IF u < 10 THEN <<Digits[u + 1]>> ELSE Append(U8ToString(u \div 10), Digits[(u % 10) + 1])

\* the number a string of digits writes
RECURSIVE DigitsValue(_)
DigitsValue(d) ==
  IF d = <<>> THEN 0
  ELSE 10 * DigitsValue(SubSeq(d, 1, Len(d) - 1))
       + (CHOOSE k \in 0..9 : Digits[k + 1] = d[Len(d)])

\* str::parse::<u8>().ok(): an optional '+', then digits of a value below 256
ParseU8(suf) ==
  LET d == IF suf # <<>> /\ suf[1] = "+" THEN Tail(suf) ELSE suf
  IN  IF /\ d # <<>>
         /\ Len(d) <= 9
         /\ \A i \in DOMAIN d : \E k \in DOMAIN Digits : Digits[k] = d[i]
         /\ DigitsValue(d) <= 255
      THEN {DigitsValue(d)}
      ELSE {}

\* value.strip_prefix('/').unwrap_or(&value).to_lowercase()
StripSlash(value) ==
  LET stripped == StripPrefix(value, <<"/">>)
  IN  ToLowercase(IF stripped = {} THEN value ELSE CHOOSE rem \in stripped : TRUE)

\* a value of one of the step types: its variant and what the variant holds
StepValue(type, variant, inner, u) ==
  [type |-> type, variant |-> variant, inner |-> inner, u |-> u]

CONVERT_SHARES_STR == <<"c", "o", "n", "v", "e", "r", "t", "-", "s", "h", "a", "r", "e", "s">>
SORT_STR == <<"s", "o", "r", "t">>
BIT_PERMUTATIONS_STR == <<"b", "i", "t", "-", "p", "e", "r", "m", "u", "t", "a", "t", "i", "o", "n", "s">>

\* impl Display for SortStep
SortStepFmt(self) ==
  CASE self.variant = "BitPermutations" -> BIT_PERMUTATIONS_STR

\* impl TryFrom<String> for SortStep
SortStepTryFrom(value) ==
  IF StripSlash(value) = BIT_PERMUTATIONS_STR
  THEN {StepValue("SortStep", "BitPermutations", "", 0)}
  ELSE {}

\* impl Display for IPAProtocolStep
IPAProtocolStepFmt(self) ==
  CASE self.variant = "ConvertShares" -> CONVERT_SHARES_STR
    [] self.variant = "Sort" -> SORT_STR

\* impl TryFrom<String> for IPAProtocolStep
IPAProtocolStepTryFrom(value) ==
  LET v == StripSlash(value)
  IN  IF v = CONVERT_SHARES_STR
      THEN {StepValue("IPAProtocolStep", "ConvertShares", "", 0)}
      ELSE IF StripPrefix(v, SORT_STR) # {}
      THEN LET rem == CHOOSE r \in StripPrefix(v, SORT_STR) : TRUE
           IN  {StepValue("IPAProtocolStep", "Sort", inner.variant, 0) :
                  inner \in SortStepTryFrom(rem)}
      ELSE {}

\* impl Display for QueryId
QueryIdFmt(self) == <<"0">>

\* impl TryFrom<String> for QueryId
QueryIdTryFrom(value) ==
  IF value = <<"0">> THEN {StepValue("QueryId", "QueryId", "", 0)} ELSE {}

\* impl Display for TestStep
TestStepFmt(self) ==
  CASE self.variant = "Mul1" -> <<"m", "u", "l", "1", "/">> \o U8ToString(self.u)
    [] self.variant = "Mul2" -> <<"m", "u", "l", "2">>
    [] self.variant = "Reshare" -> <<"r", "e", "s", "h", "a", "r", "e", "/">> \o U8ToString(self.u)
    [] self.variant = "Reveal" -> <<"r", "e", "v", "e", "a", "l", "/">> \o U8ToString(self.u)
    [] self.variant = "Shuffle" -> <<"s", "h", "u", "f", "f", "l", "e">>

\* impl TryFrom<String> for TestStep
TestStepTryFrom(value) ==
  LET v == StripSlash(value)
  IN  IF v = <<"m", "u", "l", "2">>
      THEN {StepValue("TestStep", "Mul2", "", 0)}
      ELSE {StepValue("TestStep", "Mul1", "", u) :
              u \in UNION {ParseU8(split[2]) :
                             split \in {x \in SplitOnce(v) : x[1] = <<"m", "u", "l", "1">>}}}

\* s.to_string()
ToString_(self) ==
  CASE self.type = "IPAProtocolStep" -> IPAProtocolStepFmt(self)
    [] self.type = "SortStep" -> SortStepFmt(self)
    [] self.type = "QueryId" -> QueryIdFmt(self)
    [] self.type = "TestStep" -> TestStepFmt(self)

\* T::try_from(value)
TryFrom(type, value) ==
  CASE type = "IPAProtocolStep" -> IPAProtocolStepTryFrom(value)
    [] type = "SortStep" -> SortStepTryFrom(value)
    [] type = "QueryId" -> QueryIdTryFrom(value)
    [] type = "TestStep" -> TestStepTryFrom(value)

\* the u8 values the steps of the test world are tried with
U8Sample == {0, 7, 10, 255}

\* every value of SortStep, IPAProtocolStep and QueryId, and the values of
\* TestStep over U8Sample
StepValues ==
  {StepValue("SortStep", "BitPermutations", "", 0),
   StepValue("IPAProtocolStep", "ConvertShares", "", 0),
   StepValue("IPAProtocolStep", "Sort", "BitPermutations", 0),
   StepValue("QueryId", "QueryId", "", 0),
   StepValue("TestStep", "Mul2", "", 0),
   StepValue("TestStep", "Shuffle", "", 0)}
  \cup {StepValue("TestStep", variant, "", u) :
          variant \in {"Mul1", "Reshare", "Reveal"}, u \in U8Sample}

\* the step is written out, as a segment of a path after a '/' or on its own
StepToString ==
  /\ callIn.kind = "step"
  /\ callOut.kind = "none"
  /\ callOut' = [kind |-> "string",
                 value |-> (IF callIn.slash THEN <<"/">> ELSE <<>>) \o ToString_(callIn.step)]
  /\ UNCHANGED <<callIn, shuffleVars, catVars, sortVars, circVars>>

\* and the string is parsed as a step of the same type
StepTryFrom ==
  /\ callIn.kind = "step"
  /\ callOut.kind = "string"
  /\ callOut' = [kind |-> "parsed", value |-> callOut.value,
                 result |-> TryFrom(callIn.step.type, callOut.value)]
  /\ UNCHANGED <<callIn, shuffleVars, catVars, sortVars, circVars>>

\* ------------------------------------------------------------ the calls
CallInit ==
  /\ ShuffleIdle
  /\ CatIdle
  /\ SortIdle
  /\ CircIdle
  /\ \/ callIn \in [kind : {"mod_inverse"}, m : 1..MaxGcdInput, n : 1..MaxGcdInput]
     \/ \E l \in 1..MaxSumBits :
          callIn \in [kind : {"bitwise_sum"}, a : [1..l -> {0, 1}], b : [1..l -> {0, 1}]]
     \/ callIn = [kind |-> "bitwise_sum", a |-> SumExample, b |-> SumExample]
     \/ \E n \in 0..Min(MaxQueryRows, Len(Records)) :
          \/ callIn \in [kind : {"query"}, per_user_credit_cap : CapSample,
                         plaintext_match_keys : BOOLEAN, max_breakdown_key : {8},
                         query_size : 1..(MaxQueryRows + 1),
                         rows : {SubSeq(Records, 1, n)}]
          \/ callIn \in [kind : {"oprf_ipa"}, per_user_credit_cap : CapSample,
                         max_breakdown_key : {8},
                         rows : {SubSeq(Records, 1, n),
                                 [i \in 1..n |->
                                    [user_id |-> 7, is_trigger_report |-> i > 1,
                                     breakdown_key |-> IF i > 1 THEN 0 ELSE 3,
                                     trigger_value |-> IF i > 1 THEN 7 ELSE 0]]}]
     \/ \E n \in 1..MaxSortRows :
          callIn \in [kind : {"shuffle_and_reveal_permutation"}, input_len : {n},
                      permutation : {p \in [1..n -> 0..(n - 1)] :
                                       \A i, j \in 1..n : p[i] = p[j] => i = j},
                      prss : [Helpers -> 0..(2 * n - 1)]]
     \/ \E n \in 0..MaxQueryRows :
          callIn \in [kind : {"aggregate"}, query_size : 1..(MaxQueryRows + 1),
                      rows : [1..n -> {1, 2}]]
     \/ \E n \in 0..MaxQueryRows :
          callIn \in [kind : {"reveal_keys", "compute_and_add_tags"},
                      inputs : [1..n -> {1, 2}], active_work : 1..MaxActiveWork]
     \/ callIn \in [kind : {"step"}, step : StepValues, slash : BOOLEAN]
  /\ callOut = [kind |-> "none"]

CallNext ==
  \/ GcdStart
  \/ GcdLoop
  \/ ModInverse
  \/ ModInverseAdd
  \/ BitwiseSumCall
  \/ OprfIpaExecute
  \/ AggregateExecute
  \/ ShuffleRevealGenerate
  \/ ShuffleRevealShuffle
  \/ ShuffleRevealReveal
  \/ OprfIpaCheck
  \/ OprfIpaAttribute
  \/ JoinCall
  \/ JoinAdmit
  \/ \E i \in 1..MaxQueryRows : JoinComplete(i)
  \/ JoinYield
  \/ JoinCollect
  \/ StepToString
  \/ StepTryFrom

CallSpec == CallInit /\ [][CallNext]_vars

\* ============================================================== properties
\* the value a replicated sharing reconstructs to: the sum of the three lefts
Reconstruct(sh) == GfAdd(sh[H1].left, GfAdd(sh[H2].left, sh[H3].left))

InputRow(i) == Reconstruct([h \in Helpers |-> rows[h][i]])
MacKey(j) == Reconstruct([h \in Helpers |-> keyShares[h][j]])
TaggedRow(i) == Reconstruct([h \in Helpers |-> tagged[h][i]])

\* the MAC tag of a row: the inner product of its 32-bit limbs with the MAC keys
MacTag(row) ==
  GfSum([j \in 1..RowLimbs |-> GfMul(MacKey(j), ToGf32Bit(row, SBits)[j])])

AllTagged == \A h \in Helpers : tagged[h] # <<>>
Returned(h) == pc[h] \in {"done", "failed"}
AllReturned == \A h \in Helpers : Returned(h)
AllOk == \A h \in Helpers : pc[h] = "done" /\ result[h] = "Ok"

ValidationFailures ==
  {"ShuffleValidationFailed: Y1 is inconsistent",
   "ShuffleValidationFailed: C from H3 is inconsistent",
   "ShuffleValidationFailed: C from H2 is inconsistent",
   "ShuffleValidationFailed: X2 is inconsistent"}

\* C7: no (step, sender, receiver, record id) slot of a send channel is written
\* more than once by compute_and_add_tags, reveal_keys and the three verify
\* functions, and the tagging record id i * row_length + j is distinct for
\* distinct (row, limb) pairs.
C7_WriteOnce ==
  /\ \A m \in net : m.dup = 0
  /\ \A m1 \in net : \A m2 \in net : SameSlot(m1, m2) => m1 = m2
  /\ \A i1 \in 0..(NumRows - 1) : \A i2 \in 0..(NumRows - 1) :
       \A j1 \in 0..(RowLimbs - 1) : \A j2 \in 0..(RowLimbs - 1) :
         <<i1, j1>> # <<i2, j2>>
           => TagRecordId(i1, j1, RowLimbs) # TagRecordId(i2, j2, RowLimbs)

\* every send of the wrapper has been issued: rows * keys products and two
\* reveal messages per key by each helper, and the four hashes
C7_Witness ==
  /\ AllReturned
  /\ Cardinality(net) = 3 * NumRows * RowLimbs + 3 * 2 * RowLimbs + 4

\* the total_records the code sets on each step
TotalRecordsOf(step) ==
  CASE step = "HashesH3toH1" -> 2
    [] step = "HashH2toH1" -> 1
    [] step = "HashH3toH2" -> 1
    [] step = "RevealMACKey" -> Len(keyShares[H1])
    [] step = "ctx" -> Len(rows[H1]) * Len(keyShares[H1])

\* C8: every send and every receive uses a record id below the total_records of
\* its step, the total is 2 for HashesH3toH1, 1 for HashH2toH1 and HashH3toH2,
\* the number of key shares for RevealMACKey and rows * keys for the tagging,
\* and the two ends of a channel set the same total.
C8_BoundedRecordIds ==
  /\ \A m \in net : m.rid >= 0 /\ m.rid < m.total /\ m.total = TotalRecordsOf(m.step)
  /\ \A r \in reads : r.rid >= 0 /\ r.rid < r.total /\ r.total = TotalRecordsOf(r.step)
  /\ \A m \in net : \A r \in reads :
       (m.step = r.step /\ m.from = r.from /\ m.to = r.to) => m.total = r.total

\* both ends of every channel have acted: H1 has read record 1 of HashesH3toH1
C8_Witness ==
  /\ AllReturned
  /\ \E r \in reads : r.step = "HashesH3toH1" /\ r.rid = 1 /\ r.to = H1
  /\ \E m \in net : m.step = "ctx" /\ m.rid = NumRows * RowLimbs - 1

\* the rows whose hash helper h computes in its verify function, by name
HashedRows(h) ==
  CASE h = H1 -> [x1 |-> messages[H1].x1,
                  a_xor_b |-> [i \in DOMAIN shares[H1] |->
                                 GfAdd(shares[H1][i].left, shares[H1][i].right)]]
    [] h = H2 -> [x2 |-> messages[H2].x2,
                  c |-> [i \in DOMAIN shares[H2] |-> shares[H2][i].right]]
    [] h = H3 -> [y1 |-> messages[H3].y1, y2 |-> messages[H3].y2,
                  c |-> [i \in DOMAIN shares[H3] |-> shares[H3][i].left]]

\* the inner product of a MAC-extended row with the MAC keys, tag limb included
FullInnerProduct(row) ==
  LET limbs == ToGf32Bit(row, BBits)
  IN  GfAdd(GfSum([j \in 1..RowLimbs |-> GfMul(limbs[j], MacKey(j))]),
            limbs[RowLimbs + 1])

\* C9: the key vector passed to row_hash is the revealed MAC keys in index order
\* followed by exactly one ONE, so it has key_shares.len() + 1 entries, as many
\* as a MAC-extended row has limbs, and every limb of such a row, the tag limb
\* included, enters the hashed inner product.
C9_KeyVector ==
  \A h \in Helpers :
    keys[h] # <<>> =>
      /\ keys[h] = [j \in 1..Len(keyShares[h]) |-> MacKey(j)] \o <<ONE>>
      /\ Len(keys[h]) = Len(keyShares[h]) + 1
      /\ Len(keys[h]) = NumLimbs(SBits) + 1
      /\ Len(keys[h]) = NumLimbs(BBits)
      /\ \A f \in DOMAIN hashes[h] :
           hashes[h][f] = ComputeHash([i \in DOMAIN HashedRows(h)[f] |->
                                         FullInnerProduct(HashedRows(h)[f][i])])

\* every helper holds its key vector and some hashed row has a non-zero tag limb
C9_Witness ==
  /\ \A h \in Helpers : keys[h] # <<>> /\ hashes[h] # <<>>
  /\ \E i \in DOMAIN shares[H2] :
       ToGf32Bit(shares[H2][i].right, BBits)[RowLimbs + 1] # ZERO
  /\ \E j \in 1..RowLimbs : MacKey(j) \notin {ZERO, ONE}

\* C10: each output of compute_and_add_tags reconstructs to the input row of the
\* same index followed by a 32-bit tag, the inner product over GF(2^32) of the
\* row's limbs with the reconstructed keys.
C10_TagSoundness ==
  AllTagged =>
    \A i \in 1..NumRows :
      TaggedRow(i) = InputRow(i) \cup {SBits + b : b \in MacTag(InputRow(i))}

\* the tagging has finished on rows of which two differ and one has a non-zero tag
C10_Witness ==
  /\ \A h \in Helpers : pc[h] = "tagged"
  /\ \E i \in 1..NumRows : MacTag(InputRow(i)) # ZERO
  /\ \E i \in 1..NumRows : \E k \in 1..NumRows : InputRow(i) # InputRow(k)

\* the hash written to a slot of a send channel
Sent(step, from, to, rid) == Receive(step, from, to, rid)

HashSteps == {"HashesH3toH1", "HashH2toH1", "HashH3toH2"}

SlotOf(m) == [step |-> m.step, from |-> m.from, to |-> m.to, rid |-> m.rid]

\* no handler of the honest run can take a step: every guard is false
Blocked ==
  /\ \A h \in Helpers :
       /\ pc[h] \notin {"init", "shuffled"}
       /\ pc[h] = "tagging" => ~TagArrived(h)
       /\ pc[h] = "revealing" => ~RevealArrived(h)
  /\ \E h \in Helpers : pc[h] # "tagged"
  /\ pc[H1] = "joining" =>
       \A f \in pending[H1] :
         ~Arrived(H1Slot(f).step, H1Slot(f).peer, H1, H1Slot(f).rid)
  /\ pc[H2] = "joining" =>
       /\ "send_hash_c" \notin pending[H2]
       /\ "hash_h3" \in pending[H2] =>
            ~Arrived(H2Slot("hash_h3").step, H2Slot("hash_h3").peer, H2,
                     H2Slot("hash_h3").rid)
  /\ pc[H3] = "joining" => pending[H3] = {}

\* how far the three helpers have come: every handler run raises it
Progress ==
  LET rank(h) ==
        CASE pc[h] = "init" -> 0
          [] pc[h] = "tagging" -> 1
          [] pc[h] = "tagged" -> 2
          [] pc[h] = "shuffled" -> 3
          [] pc[h] = "revealing" -> 4
          [] pc[h] = "joining" -> 5 + Cardinality(JoinOf(h) \ pending[h])
          [] OTHER -> 5 + Cardinality(JoinOf(h))
  IN  rank(H1) + rank(H2) + rank(H3)

\* C1: in a run on the untampered outputs and messages of one shuffle, in which
\* every task is scheduled and every message delivered, every helper eventually
\* returns Ok from verify_shuffle: no helper fails, every step brings the helpers
\* strictly nearer to their return (so a run cannot go on for ever), a step is
\* taken only where some handler is ready, and the only states in which no
\* handler is ready are those where all three have returned Ok.
C1_HonestRunSucceeds ==
  /\ [](\A h \in Helpers : pc[h] # "failed" /\ result[h] \in {"none", "Ok"})
  /\ [][Progress' > Progress /\ ~Blocked]_vars
  /\ [](Blocked => AllOk)

\* the three helpers have returned Ok on rows that carry a non-zero tag
C1_Witness ==
  /\ AllOk
  /\ tampered = {}
  /\ \E i \in 1..NumRows : MacTag(InputRow(i)) # ZERO

\* C2 as stated: whichever row of whichever helper is corrupted in one byte,
\* some helper fails with ShuffleValidationFailed.
C2_AnyTamperDetected ==
  (tampered # {} /\ AllReturned) => \E h \in Helpers : result[h] \in ValidationFailures

\* the corrupted row enters a hash of the helper that holds it, and the corrupted
\* limb is the tag limb or a limb whose MAC key is not zero
Detectable(t) ==
  /\ <<t.helper, t.field>> \notin {<<H2, "left">>, <<H3, "right">>}
  /\ t.limb = RowLimbs + 1 \/ MacKey(t.limb) # ZERO

\* C2 amended: a corrupted byte is detected, by H1 or by H2, when the row is one
\* its holder hashes (every row but the left component of H2's shares and the
\* right component of H3's) and the byte lies in the tag limb or in a limb whose
\* MAC key is not zero.
C2_HashedTamperDetected ==
  \A t \in tampered :
    (AllReturned /\ Detectable(t)) => \E h \in {H1, H2} : result[h] \in ValidationFailures

\* a row H3 holds was corrupted, H3 returned Ok and H1 or H2 reported it
C2_Witness ==
  /\ AllReturned
  /\ \E t \in tampered : Detectable(t) /\ t.helper = H3
  /\ result[H3] = "Ok"
  /\ \E h \in {H1, H2} : result[h] \in ValidationFailures

\* C3: h1_verify returns Ok exactly when row_hash(keys, x1) is the hash H3 wrote at
\* record 0 of HashesH3toH1 and row_hash(keys, left + right of H1's shares) is both
\* the hash H3 wrote at record 1 and the hash H2 wrote at record 0 of HashH2toH1;
\* otherwise it returns ShuffleValidationFailed.
C3_H1Verdict ==
  Returned(H1) =>
    LET hash_x1 == ComputeRowHash(keys[H1], messages[H1].x1)
        hash_a_xor_b == ComputeRowHash(keys[H1],
                          [i \in DOMAIN shares[H1] |->
                             GfAdd(shares[H1][i].left, shares[H1][i].right)])
        all_equal == /\ hash_x1 = Sent("HashesH3toH1", H3, H1, 0)
                     /\ hash_a_xor_b = Sent("HashesH3toH1", H3, H1, 1)
                     /\ hash_a_xor_b = Sent("HashH2toH1", H2, H1, 0)
    IN  /\ (result[H1] = "Ok") <=> all_equal
        /\ ~all_equal => result[H1] \in ValidationFailures

\* H1 has failed on the hash of H2 alone
C3_Witness ==
  /\ Returned(H1)
  /\ result[H1] = "ShuffleValidationFailed: C from H2 is inconsistent"
  /\ hashes[H1].a_xor_b = recvd[H1].hash_h3

\* C4: h2_verify returns Ok exactly when row_hash(keys, x2) is the hash H3 wrote
\* at record 0 of HashH3toH2, and ShuffleValidationFailed otherwise; what H2 sends
\* is row_hash(keys, right components of its shares), to H1 at record 0 of
\* HashH2toH1, and nothing else.
C4_H2Verdict ==
  /\ Returned(H2) =>
       LET equal == ComputeRowHash(keys[H2], messages[H2].x2) = Sent("HashH3toH2", H3, H2, 0)
       IN  /\ (result[H2] = "Ok") <=> equal
           /\ ~equal => result[H2] \in ValidationFailures
           /\ \E m \in net : m.from = H2 /\ m.step \in HashSteps
  /\ \A m \in net :
       (m.from = H2 /\ m.step \in HashSteps) =>
         /\ m.step = "HashH2toH1" /\ m.to = H1 /\ m.rid = 0
         /\ m.val = ComputeRowHash(keys[H2],
                      [i \in DOMAIN shares[H2] |-> shares[H2][i].right])

\* H2 has failed on a corrupted x2 after sending its hash of c
C4_Witness ==
  /\ Returned(H2)
  /\ result[H2] = "ShuffleValidationFailed: X2 is inconsistent"
  /\ \E t \in tampered : t.helper = H2 /\ t.field = "x2"
  /\ Arrived("HashH2toH1", H2, H1, 0)

\* C5: sender and receiver of each of the four hashes agree on step, peer and
\* record id: a receive completes on a slot that was written exactly once, once
\* the three helpers have returned the slots written and the slots read are the
\* same four, and each hash received is the one its sender computed under that
\* name (H1 gets h_y1 at record 0 and h_c at record 1 from H3).
C5_SendReceiveAgree ==
  LET written == {SlotOf(m) : m \in {x \in net : x.step \in HashSteps}}
      read == {SlotOf(r) : r \in {x \in reads : x.step \in HashSteps}}
  IN  /\ read \subseteq written
      /\ \A r \in read :
           Cardinality({m \in net : SlotOf(m) = r}) = 1
      /\ AllReturned => (written = read /\ Cardinality(read) = 4)
      /\ \A f \in DOMAIN recvd[H1] :
           recvd[H1][f] = CASE f = "hash_y1" -> hashes[H3].y1
                            [] f = "hash_h3" -> hashes[H3].c
                            [] f = "hash_h2" -> hashes[H2].c
      /\ \A f \in DOMAIN recvd[H2] : recvd[H2][f] = hashes[H3].y2

\* the four hashes have been sent and received, and H3's two hashes for H1 differ
C5_Witness ==
  /\ AllReturned
  /\ DOMAIN recvd[H1] = {"hash_y1", "hash_h3", "hash_h2"}
  /\ recvd[H1].hash_y1 # recvd[H1].hash_h3

\* the receives among the futures of a helper's join
ReceivesOf(h) == JoinOf(h) \ {"send_hash_c", "send_hash_y1", "send_hash_y2"}

\* the comparisons of h1_verify that fail, in the order of the code
H1Mismatches ==
  LET order == <<"ShuffleValidationFailed: Y1 is inconsistent",
                 "ShuffleValidationFailed: C from H3 is inconsistent",
                 "ShuffleValidationFailed: C from H2 is inconsistent">>
      fails == <<hashes[H1].x1 # recvd[H1].hash_y1,
                 hashes[H1].a_xor_b # recvd[H1].hash_h3,
                 hashes[H1].a_xor_b # recvd[H1].hash_h2>>
  IN  [order |-> order, at |-> {k \in 1..3 : fails[k]}]

CatSplit(c) ==
  LET buf == Serialize(catOut.share[c], catIn.bbits)
      tag_offset == NumBytes(catIn.sbits)
  IN  [row |-> SubSeq(buf, 1, tag_offset), tag |-> SubSeq(buf, tag_offset + 1, Len(buf))]

\* C11: when |S| + 32 = |B|, concatenate_row_and_tag yields a share, and for the
\* left and for the right component its serialization split at the row's byte
\* length is exactly the serialized row followed by exactly the serialized tag.
C11_ConcatenationRoundTrip ==
  (catOut.kind # "none" /\ catIn.sbits + GfBits = catIn.bbits) =>
    /\ catOut.kind = "share"
    /\ \A c \in {"left", "right"} :
         /\ CatSplit(c).row = Serialize(catIn.row[c], catIn.sbits)
         /\ CatSplit(c).tag = Serialize(catIn.tag[c], GfBits)

\* a BA112 row and a tag with bits in their first and last bytes were joined
C11_Witness ==
  /\ catOut.kind = "share"
  /\ catIn.sbits = 112
  /\ catIn.row.left = {0, 111}
  /\ catIn.row.right = {7, 8, 110}
  /\ catIn.tag.left = {0, 31}
  /\ catIn.tag.right = {7, 8, 23, 24}

\* C12 as claimed: a call whose widths do not satisfy |S| + 32 = |B| fails with
\* an InvalidConfig error.
C12_InvalidConfigError ==
  (catOut.kind # "none" /\ catIn.sbits + GfBits # catIn.bbits) =>
    catOut.kind = "error" /\ catOut.error = "InvalidConfig"

\* C12 amended: a call whose widths do not satisfy |S| + 32 = |B| panics in
\* collect() (GenericArray::from_iter expected as many items as B has bytes);
\* it returns no error value and produces no output share.
C12_BadWidthPanics ==
  (catOut.kind # "none" /\ catIn.sbits + GfBits # catIn.bbits) =>
    /\ catOut.kind = "panic"
    /\ catOut.expected = NumBytes(catIn.bbits)
    /\ "share" \notin DOMAIN catOut

\* BA32 was concatenated into BA112: the panic expects 14 items
C12_Witness ==
  /\ catIn.kind = "call"
  /\ catIn.sbits = 32
  /\ catIn.bbits = 112
  /\ catOut.kind = "panic"
  /\ catOut.expected = 14

\* ------------------------------------------------------ zero-length input
ZeroLength(h) == Len(rows[h]) * Len(keyShares[h]) = 0

\* C13 as claimed: a helper given no rows or no keys returns InvalidArgument and
\* has sent nothing.
C13_InvalidArgument ==
  \A h \in Helpers :
    (ZeroLength(h) /\ pc[h] # "init") =>
      result[h] = "InvalidArgument" /\ \A m \in net : m.from # h

\* C13 amended: a helper given no rows or no keys is rejected by
\* compute_and_add_tags before it sends any message: by the panic of its
\* debug_assert, or, where debug assertions are off, by the error that
\* TotalRecords::specified(0) returns; it never proceeds.
C13_ZeroLengthRejected ==
  \A h \in Helpers :
    (ZeroLength(h) /\ pc[h] # "init") =>
      /\ pc[h] = "failed"
      /\ result[h] \in {"panic: length * row_length != 0", "Err: TotalRecords::specified(0)"}
      /\ \A m \in net : m.from # h

\* with rows but no keys, one helper panicked and another returned the error
C13_Witness ==
  /\ Len(rows[H1]) = NumRows /\ Len(keyShares[H1]) = 0
  /\ result[H1] = "panic: length * row_length != 0"
  /\ result[H2] = "Err: TotalRecords::specified(0)"
  /\ net = {}

\* ------------------------------------------------------ shuffle correctness
Shuffled == \A h \in Helpers : pc[h] \notin {"init", "tagging", "tagged", "failed"}

\* row i of the shuffle's output, reconstructed from the three left components
OutputRow(i) == GfAdd(GfAdd(shares[H1][i].left, shares[H2][i].left), shares[H3][i].left)

\* how often the value v occurs in the sequence s
Occurrences(s, v) == Cardinality({i \in DOMAIN s : s[i] = v})

\* C14: after the shuffle H1 holds (a, b), H2 (b, c) and H3 (c, a), and the
\* reconstructed output rows a + b + c are, as a multiset, the reconstructed
\* input rows of the shuffle.
C14_ShuffleCorrectness ==
  (Shuffled /\ tampered = {}) =>
    LET n == Len(tagged[H1])
        input == [i \in 1..n |-> TaggedRow(i)]
        output == [i \in 1..n |-> OutputRow(i)]
    IN  /\ \A h \in Helpers : Len(shares[h]) = n
        /\ \A h \in Helpers, i \in 1..n : shares[h][i].right = shares[RightPeer(h)][i].left
        /\ \A i \in 1..n : Occurrences(output, input[i]) = Occurrences(input, input[i])
        /\ \A i \in 1..n : Occurrences(input, output[i]) = Occurrences(output, output[i])

\* the shuffle has moved the rows: the output is not in the input's order
C14_Witness ==
  /\ Shuffled
  /\ tampered = {}
  /\ \E i \in 1..Len(tagged[H1]) : OutputRow(i) # TaggedRow(i)
  /\ \E i \in 1..Len(tagged[H1]) : OutputRow(i) = TaggedRow(1)

\* ---------------------------------------------------------------- sort
SortRows == IF sortInput = <<>> THEN 0 ELSE Len(sortInput[1])

RECURSIVE SortKeyFrom(_, _)
\* the key of row i: its bits from bit b on, the bit of index 0 the least significant
SortKeyFrom(i, b) ==
  IF b > Len(sortInput) THEN 0 ELSE sortInput[b][i] + 2 * SortKeyFrom(i, b + 1)

SortKey(i) == SortKeyFrom(i, 1)

\* the permutation sorts: it is a bijection onto 0..n-1 and a row with a smaller
\* key is placed before a row with a larger one
SortsKeys(perm) ==
  /\ Len(perm) = SortRows
  /\ {perm[i] : i \in 1..SortRows} = 0..(SortRows - 1)
  /\ \A i, j \in 1..SortRows : SortKey(i) < SortKey(j) => perm[i] < perm[j]

\* C15 as claimed: for any input of rows with L-bit keys generate_permutation
\* returns a permutation of 0..n-1 that puts the keys in ascending order.
C15_SortCorrectness ==
  sortPc \in {"done", "panicked"} => sortPc = "done" /\ SortsKeys(sortPerm)

FpReconstruct(sh) == FpAdd(sh[H1].left, FpAdd(sh[H2].left, sh[H3].left))

\* the replicated invariant: left of H_i equals right of H_{i-1}
Replicated(sh) == \A h \in Helpers : sh[h].left = sh[LeftPeer(h)].right

\* the value the operations of a trace compute in the clear
RECURSIVE Expected(_)
Expected(trace) ==
  IF Len(trace) = 1 THEN trace[1].v
  ELSE LET e == trace[Len(trace)]
           x == Expected(SubSeq(trace, 1, Len(trace) - 1))
       IN  CASE e.op = "add" -> FpAdd(x, e.v)
             [] e.op = "sub" -> FpSub(x, e.v)
             [] OTHER -> FpMul(x, e.v)

\* the multiplications of the current bit are not under way
CircLoopHead == \A h \in Helpers : circPc[h] = "idle"

MultiplyDone == \A h \in Helpers : circPc[h] = "done"

OnlyOnes ==
  \A i \in DOMAIN circTrace :
    circTrace[i].v = 1 /\ circTrace[i].op \in {"share", "multiply"}

\* C17: the three outputs of a semi-honest multiplication reconstruct to the
\* product a * b mod p of what its inputs reconstruct to, for every sharing and
\* every PRSS draw, and a chain of depth multiplications of shares of ONE
\* reconstructs to ONE.
C17_MultiplyCorrectness ==
  /\ MultiplyDone => FpReconstruct(circOut) = Expected(circTrace)
  /\ CircLoopHead => FpReconstruct(circA) = Expected(circTrace)
  /\ (CircLoopHead /\ circBit = Depth /\ OnlyOnes) => FpReconstruct(circA) = 1

\* 7 * 5 = 4 in F_31, from shares that are not trivial
C17_Witness ==
  /\ MultiplyDone
  /\ circTrace = <<[op |-> "share", v |-> 7], [op |-> "multiply", v |-> 5]>>
  /\ FpReconstruct(circOut) = 4
  /\ \A h \in Helpers : circA[h].left # 0 /\ circB[h].left # 0

\* C18: the three output pairs of a semi-honest multiplication satisfy the
\* replicated invariant, left of H_i equals right of H_{i-1}, and so does the
\* sharing that the next linear operation or multiplication is given.
C18_MultiplyKeepsReplicated ==
  /\ MultiplyDone => Replicated(circOut)
  /\ CircLoopHead => Replicated(circA)
  /\ (\E h \in Helpers : circPc[h] = "ready") => Replicated(circA) /\ Replicated(circB)

\* the outputs of a second multiplication, fed by those of the first, that
\* are three different values
C18_Witness ==
  /\ MultiplyDone
  /\ circBit = 1
  /\ Cardinality({circOut[h].left : h \in Helpers}) = 3

\* the zero share helper h derives from its two draws at (bit, rid)
FpZeroShare(h, bit, rid) == FpSub(FpPrss(h, "left", bit, rid), FpPrss(h, "right", bit, rid))

AfterLinear ==
  /\ CircLoopHead
  /\ circTrace[Len(circTrace)].op \in {"add", "sub", "scale"}

\* C20: share_known_value(c) puts c in left for H1, in right for H3 and zero
\* elsewhere, which satisfies the replicated invariant and reconstructs to c;
\* and the result of a component-wise +, - or multiplication by a constant on
\* replicated sharings satisfies the invariant and reconstructs to the sum,
\* the difference or the multiple of what the operands reconstruct to.
C20_KnownValueAndLinear ==
  /\ \A c \in FpSample \cup {0, Prime - 1} :
       /\ ShareKnownValue(c)[H1] = Share(c, 0)
       /\ ShareKnownValue(c)[H2] = Share(0, 0)
       /\ ShareKnownValue(c)[H3] = Share(0, c)
       /\ Replicated(ShareKnownValue(c))
       /\ FpReconstruct(ShareKnownValue(c)) = c
  /\ AfterLinear =>
       /\ Replicated(circA)
       /\ FpReconstruct(circA) = Expected(circTrace)
       /\ circTrace[Len(circTrace)].op # "scale" =>
            /\ Replicated(circB)
            /\ FpReconstruct(circB) = circTrace[Len(circTrace)].v

\* the output of a multiplication minus a value shared at random
C20_Witness ==
  /\ AfterLinear
  /\ circBit = 1
  /\ circTrace[Len(circTrace)].op = "sub"
  /\ \A h \in Helpers : circB[h].left # 0 /\ circA[h].left # 0

\* ---------------------------------------------------------- local functions
RECURSIVE Gcd(_, _)
Gcd(m, n) == IF n = 0 THEN m ELSE Gcd(n, m % n)

\* C30: for nonzero m and n, extended_binary_gcd(m, n) returns (a, b, g) with
\* g = gcd(m, n) and a * m + b * n = g.
C30_ExtendedGcd ==
  callOut.kind = "gcd" =>
    /\ callOut.g = Gcd(callIn.m, callIn.n)
    /\ callOut.a * callIn.m + callOut.b * callIn.n = callOut.g

\* a result with a common factor of four and a negative coefficient
C30_Witness ==
  /\ callOut.kind = "gcd"
  /\ callIn.m = 12 /\ callIn.n = 8
  /\ callOut.g = 4
  /\ callOut.a < 0 \/ callOut.b < 0

\* mod_inverse has returned
ModInverseReturned == callIn.kind = "mod_inverse" /\ callOut.kind \in {"Some", "None", "panic"}

\* C29: for nonzero m and n, whenever mod_inverse(m, n) returns Some(t), then
\* 0 <= t < n and (m * t) mod n = 1, and it returns None exactly when
\* gcd(m, n) # 1.
C29_ModInverse ==
  ModInverseReturned =>
    /\ callOut.kind = "Some" =>
         /\ 0 <= callOut.t /\ callOut.t < callIn.n
         /\ (callIn.m * callOut.t) % callIn.n = 1
    /\ callOut.kind = "None" <=> Gcd(callIn.m, callIn.n) # 1

\* what mod_inverse does for every modulus of at least two
C29_ModInverseAboveOne ==
  (ModInverseReturned /\ callIn.n >= 2) =>
    /\ callOut.kind = "Some" =>
         /\ 0 < callOut.t /\ callOut.t < callIn.n
         /\ (callIn.m * callOut.t) % callIn.n = 1
    /\ callOut.kind = "None" <=> Gcd(callIn.m, callIn.n) # 1

\* the modulus one: Some(0) is returned, and (m * 0) mod 1 is 0
C29_ModulusOne ==
  /\ ModInverseReturned
  /\ callIn.n = 1
  /\ callOut = [kind |-> "Some", t |-> 0]

\* the number whose bits lo..hi are those of the sequence, limited to its length
RECURSIVE BitsValue(_, _, _)
BitsValue(bits, lo, hi) ==
  IF lo > Min(hi, Len(bits)) THEN 0 ELSE bits[lo] + 2 * BitsValue(bits, lo + 1, hi)

\* what the output of BitwiseSum reconstructs to, bit by bit
SumBits == [i \in 1..Len(callOut.d[H1]) |-> FpReconstruct([h \in Helpers |-> callOut.d[h][i]])]

\* C21: for two bitwise sharings of l >= 1 bits and a correct carry vector,
\* the output of BitwiseSum has l + 1 entries on every helper, each of them
\* reconstructs to 0 or 1, and the number they spell is the integer a + b
\* (compared in two halves, the low 16 bits and the rest).
C21_BitwiseSum ==
  callOut.kind = "bits" =>
    LET l == Len(callIn.a)
        low == BitsValue(callIn.a, 1, 16) + BitsValue(callIn.b, 1, 16)
    IN  /\ \A h \in Helpers : Len(callOut.d[h]) = l + 1
        /\ \A i \in 1..(l + 1) : SumBits[i] \in {0, 1} /\ Replicated([h \in Helpers |-> callOut.d[h][i]])
        /\ BitsValue(SumBits, 1, 16) = low % 65536
        /\ BitsValue(SumBits, 17, 33) =
             BitsValue(callIn.a, 17, 32) + BitsValue(callIn.b, 17, 32) + low \div 65536

\* 2147483645 + 2147483645 = 4294967290 = 65535 * 65536 + 65530
C21_Witness ==
  /\ callOut.kind = "bits"
  /\ callIn.a = SumExample /\ callIn.b = SumExample
  /\ Len(SumBits) = 33
  /\ BitsValue(SumBits, 1, 16) = 65530
  /\ BitsValue(SumBits, 17, 33) = 65535

\* ------------------------------------------------------------ reveal_keys
\* helper h has left reveal_keys, with the keys or with an error
PastReveal(h) == pc[h] \in {"joining", "done", "failed"}

\* the two values helper h received for some key differ
RevealDisagrees(h) ==
  \E i \in 1..Len(keyShares[h]) :
    Receive("RevealMACKey", LeftPeer(h), h, i - 1)
      # Receive("RevealMACKey", RightPeer(h), h, i - 1)

\* C22: malicious_reveal fails with Inconsistent exactly on the helpers whose
\* two received values disagree; when no helper fails, reveal_keys returns on
\* H1, H2 and H3 the same vector: the reconstructed value of every key share,
\* in order, and the ONE for the tag.
C22_RevealInconsistent ==
  /\ \A h \in Helpers :
       PastReveal(h) =>
         /\ RevealDisagrees(h) <=> result[h] = "Inconsistent"
         /\ RevealDisagrees(h) <=> keys[h] = <<>>
  /\ (\A h \in Helpers : PastReveal(h) /\ ~RevealDisagrees(h)) =>
       /\ keys[H1] = keys[H2] /\ keys[H2] = keys[H3]
       /\ Len(keys[H1]) = Len(keyShares[H1]) + 1
       /\ \A j \in 1..Len(keyShares[H1]) : keys[H1][j] = MacKey(j)

\* one helper has failed with Inconsistent and the other two hold key vectors
C22_Witness ==
  /\ \A h \in Helpers : PastReveal(h)
  /\ Cardinality({h \in Helpers : result[h] = "Inconsistent"}) = 1
  /\ Cardinality({h \in Helpers : Len(keys[h]) = RowLimbs + 1}) = 2

\* ------------------------------------------------------------- query runner
\* OprfIpaQuery::execute has returned or panicked on a plaintext query
QueryOver == callIn.kind = "query" /\ callOut.kind # "none" /\ callIn.plaintext_match_keys

\* C23: OprfIpaQuery::execute with per_user_credit_cap outside {8, 16, 32, 64,
\* 128} fails with an InvalidConfig error before any protocol step, and for
\* the caps 8, 16, 32, 64, 128 it selects a capped value of 3, 4, 5, 6, 7 bits.
C23_InvalidConfig ==
  QueryOver =>
    IF callIn.per_user_credit_cap \in {8, 16, 32, 64, 128}
    THEN /\ callOut.kind # "panic"
         /\ callOut.kind = "oprf_ipa" => 2 ^ callOut.tv_bits = callIn.per_user_credit_cap
    ELSE callOut.kind = "InvalidConfig"

\* what the runner does: a cap outside {8, 16, 32, 64, 128} makes it panic
\* with a message that names the valid caps, without calling oprf_ipa and
\* without an error value; for the valid caps it calls oprf_ipa with a capped
\* value of log2(cap) bits.
C23_InvalidCapPanics ==
  QueryOver =>
    IF callIn.per_user_credit_cap \in {8, 16, 32, 64, 128}
    THEN /\ callOut.kind # "panic"
         /\ callOut.kind = "oprf_ipa" => 2 ^ callOut.tv_bits = callIn.per_user_credit_cap
    ELSE callOut = [kind |-> "panic", message |-> "Invalid value specified for per-user cap"]

\* a power of two that is not a valid cap has made the runner panic
C23_Witness ==
  /\ QueryOver
  /\ callIn.per_user_credit_cap = 256
  /\ callOut.kind = "panic"
  /\ Len(callIn.rows) > 0

\* ------------------------------------------------------------------ oprf_ipa
\* oprf_ipa has been called, by the runner or directly
OprfIpaCalled ==
  \/ callIn.kind = "oprf_ipa" /\ callOut.kind # "none"
  \/ callIn.kind = "query" /\ callOut.kind \notin {"none", "oprf_ipa"}
                           /\ callIn.plaintext_match_keys
                           /\ callIn.per_user_credit_cap \in {8, 16, 32, 64, 128}

\* C24: oprf_ipa rejects every per_user_credit_cap that is not a power of two,
\* 0 included, and does so before the conversion and PRF evaluation steps
\* send any message: such a call is never found in the join of those steps
\* nor past it. (A panic is taken for the rejection here as well as an
\* InvalidConfig error.)
C24_NotPowerOfTwoRejected ==
  (OprfIpaCalled /\ ~ \E b \in 0..29 : callIn.per_user_credit_cap = 2 ^ b)
    => callOut.kind \in {"InvalidConfig", "panic"} /\ callOut.message # "argument of integer logarithm must be positive"

\* C25: attribution, capping and aggregation end to end: each trigger row
\* credits its value to the breakdown key of its user's latest source row,
\* capped per user, and for the five records of scenario S6 with cap 16 and 8
\* buckets the output reconstructs to [0,2,3,0,0,0,0,0].
C25_EndToEnd ==
  ( /\ callOut.kind = "histogram"
    /\ callIn.kind = "oprf_ipa"
    /\ callIn.rows = Records
    /\ callIn.per_user_credit_cap = 16 )
    => callOut.value = <<0, 2, 3, 0, 0, 0, 0, 0>>

\* -------------------------------------------------------------------- joins
\* C28: the results of parallel_join and seq_join are in input order whatever
\* the order in which the futures complete (revealed key i belongs to key
\* share i, tagged row i to input row i, pseudonym i to input row i), and
\* seq_join(active_work, ..) never has more than active_work futures in
\* flight.
C28_JoinOrdering ==
  /\ callOut.kind \in {"join", "joined"} =>
       \A j \in 1..Len(callOut.out) :
         callOut.out[j] =
           IF callOut.site = "pseudonyms"
           THEN ((callOut.rows[j].user_id + 4321) * 7919) % 1000003
           ELSE [site |-> callOut.site, of |-> callIn.inputs[j]]
  /\ callOut.kind = "histogram" =>
       /\ Len(callOut.rows) = IF callIn.kind = "query"
                               THEN Min(callIn.query_size, Len(callIn.rows))
                               ELSE Len(callIn.rows)
       /\ \A j \in 1..Len(callOut.rows) :
            callOut.rows[j].prf_of_match_key = ((callIn.rows[j].user_id + 4321) * 7919) % 1000003
  /\ (callOut.kind = "join" /\ callOut.site = "compute_and_add_tags") =>
       /\ callOut.started - Len(callOut.out) <= callIn.active_work
       /\ Cardinality((1..callOut.started) \ callOut.finished) <= callIn.active_work

\* with active_work 2 and three rows, the first and the third future have
\* completed and the second has not: one result is out, two futures are in
\* flight
C28_Witness ==
  /\ callOut.kind = "join"
  /\ callOut.site = "compute_and_add_tags"
  /\ callIn.active_work = 2
  /\ callIn.inputs = <<1, 2, 1>>
  /\ callOut.finished = {1, 3}
  /\ Len(callOut.out) = 1
  /\ callOut.started = 3

C27_OutOfOrderDelivery ==
  /\ "hash_y1" \in DOMAIN recvd[H1] => recvd[H1].hash_y1 = hashes[H3].y1
  /\ "hash_h3" \in DOMAIN recvd[H1] => recvd[H1].hash_h3 = hashes[H3].c
  /\ result[H1] # "none" =>
       result[H1] = H1Verdict(hashes[H1], [hash_y1 |-> hashes[H3].y1,
                                           hash_h3 |-> hashes[H3].c,
                                           hash_h2 |-> hashes[H2].c])

\* H3 has sent record 1 and not yet record 0, and H1 has received record 1,
\* the two hashes being different
C27_Witness ==
  /\ Arrived("HashesH3toH1", H3, H1, 1)
  /\ ~Arrived("HashesH3toH1", H3, H1, 0)
  /\ "hash_h3" \in DOMAIN recvd[H1]
  /\ "hash_y1" \notin DOMAIN recvd[H1]
  /\ hashes[H3].y1 # hashes[H3].c

\* ------------------------------------------------------------- termination
\* C40: extended_binary_gcd terminates for all nonzero m and n: every
\* iteration of its outer loop that does not return leaves u + v smaller and
\* v positive, and the loop is never entered with u = 0; the loop of
\* mod_inverse that adds n to a negative coefficient makes it larger each
\* time round and ends with a value in 1..n-1.
C40_Termination ==
  /\ [](callIn.kind = "mod_inverse" => callOut.kind \notin {"diverged", "panic"})
  /\ [](callOut.kind = "ebgcd" => callOut.u > 0 /\ callOut.v > 0)
  /\ [][ /\ (callOut.kind = "ebgcd" /\ callOut'.kind = "ebgcd")
              => callOut'.u + callOut'.v < callOut.u + callOut.v
         /\ (callOut.kind = "adding" /\ callOut'.kind = "adding")
              => callOut.a < 0 /\ callOut'.a = callOut.a + callIn.n
         /\ callOut.kind = "adding"
              => callOut.a < callIn.n
         /\ (callOut.kind = "adding" /\ callOut'.kind # "adding")
              => callOut'.kind = "Some" /\ callOut'.t \in 1..(callIn.n - 1) ]_vars

\* extended_binary_gcd has returned after more than one iteration's worth of
\* work (a negative coefficient for a modulus above 2), and the adding loop
\* has added n and is about to end
C40_Witness ==
  /\ callIn.kind = "mod_inverse"
  /\ callIn.n > 2
  /\ callOut.kind = "adding"
  /\ callOut.a > 0

\* ------------------------------------------------------------- query size
\* the rows a runner has handed to its protocol are the first
\* min(query_size, number of parsed rows) parsed rows, in input order
FirstRows ==
  /\ Len(callOut.rows) = Min(callIn.query_size, Len(callIn.rows))
  /\ \A i \in 1..Len(callOut.rows) : callOut.rows[i] = callIn.rows[i]

\* C35: both query runners process exactly min(query_size, number of parsed
\* rows) rows, in input order: rows beyond query_size are dropped, and a
\* query_size above the number of parsed rows is not an error and leaves all
\* rows in place.
C35_QuerySize ==
  /\ callIn.kind = "aggregate" /\ callOut.kind # "none"
       => callOut.kind = "aggregate_protocol" /\ FirstRows
  /\ callIn.kind = "query" /\ callOut.kind = "oprf_ipa" => FirstRows
  /\ ( /\ callIn.kind = "query" /\ callOut.kind # "none"
       /\ callIn.plaintext_match_keys
       /\ callIn.per_user_credit_cap \in {8, 16, 32, 64, 128} )
       => callOut.kind # "panic"

\* the aggregate runner was given three rows and a query_size of 2, and has
\* dropped the third row, which differs from the second
C35_Witness ==
  /\ callIn.kind = "aggregate"
  /\ callIn.query_size = 2
  /\ callIn.rows = <<1, 1, 2>>
  /\ callOut.kind = "aggregate_protocol"
  /\ callOut.rows = <<1, 1>>

\* the OPRF runner was given two rows and a query_size of 4 and has kept both
C35_LargerQuerySize ==
  /\ callIn.kind = "query"
  /\ callIn.query_size = 4
  /\ Len(callIn.rows) = 2
  /\ callOut.kind = "oprf_ipa"
  /\ Len(callOut.rows) = 2

\* ------------------------------------------------------- the role of H3
\* C37: H3 performs no comparison in the verification: h3_verify returns Ok
\* whenever its three sends are done, whatever the shares and messages hold,
\* also in executions where H1 or H2 return ShuffleValidationFailed; the
\* verification sends nothing to H3 and H3 receives nothing in it, so that a
\* helper's failure is not communicated.
C37_H3NeverFails ==
  /\ result[H3] \in {"none", "Ok"}
  /\ ( \A f \in {"send_hash_y1", "send_hash_c", "send_hash_y2"} :
         Arrived(H3Slot(f).step, H3, H3Slot(f).peer, H3Slot(f).rid) )
       => result[H3] = "Ok"
  /\ \A m \in net : m.step \in HashSteps => m.to # H3
  /\ \A o \in reads : o.step \in HashSteps => o.to # H3

\* H1 has returned ShuffleValidationFailed and H3 has returned Ok
C37_Witness ==
  /\ result[H3] = "Ok"
  /\ result[H1] \notin {"none", "Ok"}
  /\ tampered # {}

\* ------------------------------------------------------------ the MAC check
\* the three helpers have computed their hashes
AllHashed == \A h \in Helpers : DOMAIN hashes[h] # {}

\* output row i put together from H1's a and b and the c that helper h holds
RowWithC(i, h) ==
  GfAdd(GfAdd(shares[H1][i].left, shares[H1][i].right),
        IF h = H2 THEN shares[H2][i].right ELSE shares[H3][i].left)

\* the last limb of the row, its tag, is the sum of k_j times prefix limb j
TagValid(row, ks) ==
  LET limbs == ToGf32Bit(row, BBits)
  IN  limbs[RowLimbs + 1] = GfSum([j \in 1..RowLimbs |-> GfMul(ks[j], limbs[j])])

\* C38: with the key vector k followed by ONE, the inner product H1 hashes
\* for a+b of a row equals the one H2 (and H3) hashes for c exactly when the
\* reconstructed row a+b+c has a tag equal to the sum of k_j times its j-th
\* prefix limb; so, the sequences of inner products standing for their
\* hashes, H1's two checks of c pass exactly when every reconstructed row
\* carries a valid tag.
C38_MacCheckEquivalence ==
  AllHashed =>
    /\ \A i \in DOMAIN shares[H1], h \in {H2, H3} :
         (hashes[H1].a_xor_b.sha256_of[i] = hashes[h].c.sha256_of[i])
           <=> TagValid(RowWithC(i, h), keys[H1])
    /\ (hashes[H1].a_xor_b = hashes[H3].c /\ hashes[H1].a_xor_b = hashes[H2].c)
         <=> \A i \in DOMAIN shares[H1], h \in {H2, H3} :
               TagValid(RowWithC(i, h), keys[H1])

\* a tampered run in which the inner products of a+b and of H2's c differ
\* for a row whose tag is not valid, and H1 has failed on it
C38_Witness ==
  /\ AllHashed
  /\ tampered # {}
  /\ \E i \in DOMAIN shares[H1] :
       /\ hashes[H1].a_xor_b.sha256_of[i] # hashes[H2].c.sha256_of[i]
       /\ ~TagValid(RowWithC(i, H2), keys[H1])
       /\ \E j \in DOMAIN shares[H1] : TagValid(RowWithC(j, H2), keys[H1])
  /\ result[H1] = "ShuffleValidationFailed: C from H2 is inconsistent"

\* ------------------------------------------ shuffle_and_reveal_permutation
ShuffleRevealDone ==
  callIn.kind = "shuffle_and_reveal_permutation"
    /\ callOut.kind = "RevealedAndRandomPermutations"

\* C31: shuffle_and_reveal_permutation run by the three helpers on shares of
\* a permutation of 0..n-1 returns the same revealed vector on all three
\* helpers, and that vector is a permutation of 0..n-1.
C31_RevealedPermutation ==
  ShuffleRevealDone =>
    /\ \A h \in Helpers : callOut.out[h].revealed = callOut.out[H1].revealed
    /\ Len(callOut.out[H1].revealed) = callIn.input_len
    /\ \A v \in 0..(callIn.input_len - 1) :
         \E i \in 1..callIn.input_len : callOut.out[H1].revealed[i] = v

\* three rows have been shuffled and revealed, and the revealed permutation
\* is neither the input permutation nor the identity
C31_Witness ==
  /\ ShuffleRevealDone
  /\ callIn.input_len = 3
  /\ callOut.out[H3].revealed # callIn.permutation
  /\ callOut.out[H3].revealed # <<0, 1, 2>>

\* C32: the two random permutations each helper gets are pairwise shared:
\* helper i's first one is helper i-1's second one, so that the six held
\* permutations are three, one per pair of helpers, and every helper holds
\* two of the three.
C32_PairwiseSharedPermutations ==
  ShuffleRevealDone =>
    /\ \A h \in Helpers :
         callOut.out[h].randoms_for_shuffle[1]
           = callOut.out[LeftPeer(h)].randoms_for_shuffle[2]
    /\ \E p \in [Helpers -> {callOut.out[h].randoms_for_shuffle[2] : h \in Helpers}] :
         \A h \in Helpers :
           callOut.out[h].randoms_for_shuffle = <<p[LeftPeer(h)], p[h]>>

\* the three permutations are three different ones
C32_Witness ==
  /\ ShuffleRevealDone
  /\ callIn.input_len = 3
  /\ Cardinality({callOut.out[h].randoms_for_shuffle[2] : h \in Helpers}) = 3
  /\ callOut.out[H1].randoms_for_shuffle[1] # callOut.out[H1].randoms_for_shuffle[2]

\* ---------------------------------------------- sort: the rounds of the loop
\* C36: in every round of generate_permutation the random shuffle
\* permutations drawn for shuffle_and_reveal_permutation are as long as the
\* permutation being shuffled has rows (the length of the composition so far
\* and of each bit column), for any number of rows and bits.
C36_PermutationLength ==
  sortPc \in {"apply_inv", "bit_permutation", "compose"} =>
    /\ Len(sortLocals.randoms) = Len(sortPerm)
    /\ Len(sortLocals.randoms) = Len(sortInput[sortBitNum + 1])

\* the step that follows each position of generate_permutation
NextSortStep(p) ==
  CASE p = "shuffle_reveal" -> {"apply_inv", "panicked"}
    [] p = "apply_inv" -> {"bit_permutation"}
    [] p = "bit_permutation" -> {"compose"}
    [] OTHER -> {}

\* C33: the order of the rounds of generate_permutation: bit 0 runs only
\* bit_permutation, without shuffle or reveal; for each bit i from 1 to L-1,
\* in increasing order, the steps run in the order shuffle and reveal of the
\* composition so far, apply-inverse on the bits of i, bit_permutation,
\* compose; round i starts only when round i-1 has produced its composition;
\* what is returned is the composition of the last round, and for L = 1 the
\* permutation of bit 0.
C33_RoundOrder ==
  /\ [](sortPc = "done" => sortBitNum = Len(sortInput))
  /\ [](sortPc \in {"shuffle_reveal", "apply_inv", "bit_permutation", "compose"}
          => sortBitNum \in 1..(Len(sortInput) - 1))
  /\ [][ /\ sortPc = "start" =>
              /\ sortPerm' = BitPermutation(sortInput[1])
              /\ sortLocals' = NoLocals
              /\ sortBitNum' = 1
              /\ sortPc' = IF Len(sortInput) = 1 THEN "done" ELSE "shuffle_reveal"
         /\ sortPc \in {"shuffle_reveal", "apply_inv", "bit_permutation"} =>
              /\ sortPc' \in NextSortStep(sortPc)
              /\ sortBitNum' = sortBitNum
              /\ sortPerm' = sortPerm
         /\ (sortPc = "shuffle_reveal" /\ sortPc' = "apply_inv") =>
              sortLocals'.revealed = ShuffleShares(sortPerm, sortLocals'.randoms)
         /\ sortPc = "apply_inv" =>
              sortLocals'.sorted =
                ApplyInv(sortLocals.revealed,
                         ShuffleShares(sortInput[sortBitNum + 1], sortLocals.randoms))
         /\ sortPc = "bit_permutation" =>
              sortLocals'.tau = BitPermutation(sortLocals.sorted)
         /\ sortPc = "compose" =>
              /\ sortPerm' = UnshuffleShares(Apply(sortLocals.revealed, sortLocals.tau),
                                             sortLocals.randoms)
              /\ sortBitNum' = sortBitNum + 1
              /\ sortPc' = IF sortBitNum' < Len(sortInput) THEN "shuffle_reveal" ELSE "done"
         /\ sortPc \in {"done", "panicked"} => sortPc' = sortPc /\ sortPerm' = sortPerm
       ]_vars

\* three rows with keys of three bits have gone through the rounds of bit 1
\* and bit 2, and the last composition is returned
C33_Witness ==
  /\ sortPc = "done"
  /\ Len(sortInput) = 3
  /\ SortRows = 3
  /\ sortBitNum = 3
  /\ sortLocals.tau # <<0, 1, 2>>
  /\ sortPerm # BitPermutation(sortInput[1])

\* the steps verify_shuffle and its callees narrow their context to
VerifySteps ==
  {"RevealMACKey", H1Slot("hash_y1").step, H1Slot("hash_h2").step, H2Slot("hash_h3").step}

\* the hashes verify_shuffle sends: who writes which slot
VerifySends ==
  {<<H2, H2Slot("send_hash_c")>>, <<H3, H3Slot("send_hash_y1")>>,
   <<H3, H3Slot("send_hash_c")>>, <<H3, H3Slot("send_hash_y2")>>}

\* C34: the contexts generate_permutation hands to its sub-protocols over all
\* bits are pairwise distinct step paths, the four steps of verify_shuffle are
\* pairwise distinct and none of them is on a path of the sort, and no two
\* hashes are sent on the same (step, sender, peer, record id).
C34_StepCollisionFreedom ==
  /\ \A i \in DOMAIN sortSteps : \A j \in DOMAIN sortSteps :
       i # j => sortSteps[i] # sortSteps[j]
  /\ Cardinality(VerifySteps) = 4
  /\ \A i \in DOMAIN sortSteps : \A k \in DOMAIN sortSteps[i] :
       sortSteps[i][k].step \notin VerifySteps
  /\ \A m1 \in VerifySends : \A m2 \in VerifySends :
       m1 # m2 => <<m1[1], m1[2].step, m1[2].peer, m1[2].rid>>
                    # <<m2[1], m2[2].step, m2[2].peer, m2[2].rid>>

\* a sort of keys of MaxSortBits bits has run to its end: one context for
\* bit 0 and six for every later bit
C34_Witness ==
  /\ sortPc = "done"
  /\ Len(sortInput) = MaxSortBits
  /\ Len(sortSteps) = 1 + 6 * (MaxSortBits - 1)
  /\ Cardinality(VerifySends) = 4

\* C39: for every value s of IPAProtocolStep, SortStep, TestStep and QueryId,
\* parsing the Display string of s, with or without a leading '/', succeeds
\* and returns s, and two different values of one type never have the same
\* Display string.
C39_RoundTrip ==
  /\ callIn.kind = "step" /\ callOut.kind = "parsed" => callOut.result = {callIn.step}
  /\ \A s1 \in StepValues : \A s2 \in StepValues :
       s1.type = s2.type /\ s1 # s2 => ToString_(s1) # ToString_(s2)
====
